---- MODULE Spec2Model ----
(***************************************************************************)
(* Staleness detection of the discussion hooks.                            *)
(*                                                                         *)
(*   hooks/common/snapshot_manager.py   scanner, comparator, store         *)
(*   hooks/stop/check_precipitation.py  conversation-end hook              *)
(*   hooks/file-edit/track_file_edit.py edit-time hook                     *)
(*   hooks/common/meta_parser.py        legacy per-discussion meta record  *)
(*   hooks/common/platform_utils.py     stdin/stdout protocol              *)
(*                                                                         *)
(* Modification times are floats in the code; only their order and         *)
(* equality are used, so they are naturals here.  File names are strings   *)
(* in the code and are compared and sorted; they are naturals here, with   *)
(* 0 standing for the empty string "".  A Python dict is a function from   *)
(* key strings; d.get(k, default) is Get(d, k, default).                   *)
(***************************************************************************)
EXTENDS Integers, Sequences, FiniteSets, TLC

\* ------------------------------------------------------------------ bounds
\* largest outline modification time
MaxTime == 2
\* largest modification time of a decision or note file
MaxFileTime == 2
\* largest change_count drawn for a stored state of the comparator
MaxCount == 2

\* the conversation-end hook is not started once a stored change_count has
\* reached this value (the counter itself is unbounded)
HookMaxCount == 3
\* largest outline modification time in the end-to-end scenarios
ScenarioMaxTime == 7

\* names of the files that may exist under decisions/ and under notes/
DecisionNames == {1, 2}
NoteNames == {1}
\* the same, for the discussions the hooks run on
HookDecisionNames == {1}
HookNoteNames == {1}
\* the mtimes of the note files the hooks run on (decision files take every
\* mtime up to MaxFileTime; the code treats the two directories alike)
HookNoteTimes == {1}
\* discussion keys "YYYY-MM-DD/topic-slug"
Keys == {"2026-01-28/topic"}
\* values a user writes into config.stale_threshold
Thresholds == {1}

VARIABLES
    cmpOld,     \* comparator: the old_state argument
    cmpNew,     \* comparator: the new_state argument (mutated by the call)
    cmpScan,    \* comparator: new_state as it was before the call
    cmpRet,     \* comparator: the returned change_count
    cmpPc,      \* comparator: "ready" before the call, "called" after it
    discussRoot,\* whether <workspace>/.discuss exists
    fs,         \* the discussion directories under .discuss, by key
    storeFile,  \* .discuss/.snapshot.yaml
    stop,       \* the conversation-end hook process and what it wrote
    scenario,   \* end-to-end scenarios: whose turn it is and the runs so far
    metaFile,   \* <discussion directory>/meta.yaml
    edit,       \* the edit-time hook process and what it wrote
    call,       \* a function of the code called on its own: arguments, result
    procs       \* conversation-end hook processes running side by side

cmpVars == <<cmpOld, cmpNew, cmpScan, cmpRet, cmpPc>>
hookVars == <<discussRoot, fs, storeFile, stop, scenario>>
editVars == <<metaFile, edit>>
auxVars == <<call, procs>>
vars == <<cmpOld, cmpNew, cmpScan, cmpRet, cmpPc,
          discussRoot, fs, storeFile, stop, scenario, metaFile, edit,
          call, procs>>

\* ------------------------------------------------------------ dictionaries
EmptyDict == [k \in {} |-> 0]

Get(d, k, default) == IF k \in DOMAIN d THEN d[k] ELSE default

\* ------------------------------------------------- snapshot_manager.py
\* Python's order on (name, mtime) tuples
TupleLess(a, b) == a[1] < b[1] \/ (a[1] = b[1] /\ a[2] < b[2])

Insert(t, s) ==
    LET k == Cardinality({i \in 1..Len(s) : ~TupleLess(t, s[i])})
    IN  SubSeq(s, 1, k) \o <<t>> \o SubSeq(s, k + 1, Len(s))

RECURSIVE sorted(_)
sorted(s) == IF s = <<>> THEN <<>> ELSE Insert(Head(s), sorted(Tail(s)))

normalize_unsorted(file_list) ==
    [i \in 1..Len(file_list) |->
        <<Get(file_list[i], "name", 0), Get(file_list[i], "mtime", 0)>>]

_normalize_file_list_unsorted(file_list) == normalize_unsorted(file_list)

_normalize_file_list(file_list) == sorted(normalize_unsorted(file_list))

old_change_count_new_is_one(old_state) ==
    Get(Get(old_state, "outline", EmptyDict), "change_count", 1)

old_change_count(old_state) ==
    Get(Get(old_state, "outline", EmptyDict), "change_count", 0)

outline_mtime(state) == Get(Get(state, "outline", EmptyDict), "mtime", 0)

decisions_changed(old_state, new_state) ==
    _normalize_file_list(Get(old_state, "decisions", <<>>))
        # _normalize_file_list(Get(new_state, "decisions", <<>>))

notes_changed_never(old_state, new_state) == FALSE

notes_changed(old_state, new_state) ==
    _normalize_file_list(Get(old_state, "notes", <<>>))
        # _normalize_file_list(Get(new_state, "notes", <<>>))

outline_count_restart(old_cc, old_mtime, new_mtime) ==
    IF new_mtime > old_mtime THEN 1 ELSE old_cc

outline_count_reset_on_decrease(old_cc, old_mtime, new_mtime) ==
    IF new_mtime > old_mtime THEN old_cc + 1
    ELSE IF new_mtime < old_mtime THEN 0
    ELSE old_cc

outline_count_by_mtime(old_cc, old_mtime, new_mtime) ==
    IF new_mtime > old_mtime THEN old_cc + (new_mtime - old_mtime) ELSE old_cc

outline_count_on_equal(old_cc, old_mtime, new_mtime) ==
    IF new_mtime >= old_mtime THEN old_cc + 1 ELSE old_cc

outline_count_down(old_cc, old_mtime, new_mtime) ==
    IF new_mtime > old_mtime THEN old_cc + 1
    ELSE IF new_mtime < old_mtime THEN old_cc - 1
    ELSE old_cc

\* the outline comparison, taken when decisions and notes are unchanged
outline_count(old_cc, old_mtime, new_mtime) ==
    IF new_mtime > old_mtime THEN old_cc + 1
    ELSE IF new_mtime < old_mtime THEN old_cc
    ELSE old_cc

\* the returned change_count
new_change_count_carried(old_state, new_state) ==
    IF decisions_changed(old_state, new_state) \/ notes_changed(old_state, new_state)
    THEN 0
    ELSE outline_count(old_change_count(new_state),
                       outline_mtime(old_state), outline_mtime(new_state))

new_change_count(old_state, new_state) ==
    IF decisions_changed(old_state, new_state) \/ notes_changed(old_state, new_state)
    THEN 0
    ELSE outline_count(old_change_count(old_state),
                       outline_mtime(old_state), outline_mtime(new_state))

\* the count is returned and not written into new_state
set_and_return_unwritten(new_state, c) ==
    [ret |-> c, new_state |-> new_state]

\* new_state["outline"]["change_count"] = c; return c
set_and_return(new_state, c) ==
    [ret |-> c, new_state |-> [new_state EXCEPT !.outline.change_count = c]]

\* new_state keeps the largest outline mtime of the two states
compare_and_update_keep_peak(old_state, new_state) ==
    [ret |-> new_change_count(old_state, new_state),
     new_state |->
        [new_state EXCEPT
            !.outline.change_count = new_change_count(old_state, new_state),
            !.outline.mtime = IF outline_mtime(old_state) > @
                              THEN outline_mtime(old_state) ELSE @]]

\* compare_and_update returns the count and writes it into new_state
compare_and_update(old_state, new_state) ==
    set_and_return(new_state, new_change_count(old_state, new_state))

\* --------------------------------------- snapshot_manager.py: the store
DEFAULT_STALE_THRESHOLD == 3

\* d[k] = v and del d[k]
Put(d, k, v) == (k :> v) @@ d
Del(d, k) == [x \in DOMAIN d \ {k} |-> d[x]]

create_default_snapshot ==
    [version |-> 1,
     config |-> [stale_threshold |-> DEFAULT_STALE_THRESHOLD],
     discussions |-> EmptyDict]

\* the config of the file is replaced by the default config
ensure_structure_default_config(doc) ==
    [version |-> Get(doc, "version", 1),
     config |-> [stale_threshold |-> DEFAULT_STALE_THRESHOLD],
     discussions |-> Get(doc, "discussions", EmptyDict)] @@ doc

\* "Ensure structure" of load_snapshot, on the parsed document
ensure_structure(doc) ==
    LET s1 == IF "version" \in DOMAIN doc THEN doc ELSE Put(doc, "version", 1)
        s2 == IF "config" \in DOMAIN s1 THEN s1 ELSE Put(s1, "config", EmptyDict)
        s3 == IF "discussions" \in DOMAIN s2 THEN s2
              ELSE Put(s2, "discussions", EmptyDict)
    IN  IF "stale_threshold" \in DOMAIN s3["config"] THEN s3
        ELSE Put(s3, "config",
                 Put(s3["config"], "stale_threshold", DEFAULT_STALE_THRESHOLD))

\* The file is absent, or unparsable (yaml.safe_load raises, or yields a
\* value that is no mapping, so that the structure checks raise), or holds a
\* mapping; an empty file loads as None and is taken as {}.
AbsentFile == [kind |-> "absent", doc |-> EmptyDict]
UnparsableFile == [kind |-> "unparsable", doc |-> EmptyDict]
YamlFile(doc) == [kind |-> "yaml", doc |-> doc]

\* A file that parses but holds, at the place where, a value of the Python
\* type type in place of a mapping or an integer; the values are truthy.
IllTypedFile(where, type) ==
    [kind |-> "illtyped", doc |-> [where |-> where, type |-> type]]

\* the statements of the try block of load_snapshot raise TypeError: item
\* assignment or "in" on a document that is no mapping, "in" or item
\* assignment on a config that is no mapping, len() of an integer or None
load_raises(doc) ==
    \/ doc.where = "document"
    \/ doc.where = "config"
    \/ doc.where = "discussions" /\ doc.type \in {"int", "null"}

\* the snapshot load_snapshot returns for an ill-typed document in which
\* nothing raised: the document with the missing keys added; py_types
\* records which value has which Python type
loaded_as_is(doc) == Put(ensure_structure(EmptyDict), "py_types", doc)

load_snapshot(file) ==
    IF file.kind = "absent" THEN create_default_snapshot
    ELSE IF file.kind = "unparsable" THEN create_default_snapshot
    ELSE IF file.kind = "illtyped"
    THEN IF load_raises(file.doc) THEN create_default_snapshot
         ELSE loaded_as_is(file.doc)
    ELSE ensure_structure(file.doc)

py_types(snapshot) == Get(snapshot, "py_types", [where |-> "", type |-> ""])

\* force_threshold = threshold * 2 raises TypeError for None
threshold_raises(snapshot) ==
    py_types(snapshot).where = "stale_threshold" /\ py_types(snapshot).type = "null"

\* the first pass of the loop raises: AttributeError for .get on discussions
\* that are a string or a list, TypeError for change_count >= threshold with
\* a threshold that is a string or a list
loop_raises(snapshot) ==
    \/ py_types(snapshot).where = "discussions"
    \/ py_types(snapshot).where = "stale_threshold"

\* save_snapshot: mkdir or open may raise before the file is touched; a
\* failure after open(path, "w") has truncated the file leaves it empty or
\* cut off.  The exception is caught inside save_snapshot.
SaveFaults == {"none", "open", "write_empty", "write_partial"}

save_snapshot_skipped(file, snapshot, saveFault) == file

save_snapshot(file, snapshot, saveFault) ==
    IF saveFault = "none" THEN YamlFile(snapshot)
    ELSE IF saveFault = "open" THEN file
    ELSE IF saveFault = "write_empty" THEN YamlFile(EmptyDict)
    ELSE UnparsableFile

\* ------------------------------------- snapshot_manager.py: the scanner
\* A discussion directory: outline is the mtime of outline.md (0: no such
\* file), decisions and notes give each file's mtime (0: no such file),
\* recent says whether is_recently_modified holds of the directory.
NoDir(dnames, nnames) ==
    [exists |-> FALSE, recent |-> FALSE, outline |-> 0,
     decisions |-> [n \in dnames |-> 0], notes |-> [n \in nnames |-> 0]]

Present(files) == {n \in DOMAIN files : files[n] > 0}

\* glob("*.md") yields the files in an order the file system chooses
Listings(files) ==
    LET P == Present(files)
    IN  {[i \in 1..Cardinality(P) |-> [name |-> o[i], mtime |-> files[o[i]]]] :
            o \in {q \in [1..Cardinality(P) -> P] :
                      \A i, j \in 1..Cardinality(P) : i # j => q[i] # q[j]}}

\* A file deleted between glob and stat is skipped and an outline deleted
\* between exists and stat leaves mtime 0.0: the scan of the directory as it
\* is after the deletion.
scan_discussion(dir, decision_list, note_list) ==
    [outline |-> [mtime |-> dir.outline, change_count |-> 0],
     decisions |-> decision_list,
     notes |-> note_list]

ScanResults(dir) ==
    {scan_discussion(dir, dl, nl) :
        dl \in Listings(dir.decisions), nl \in Listings(dir.notes)}

\* topic directories whose parent's name does not match \d{4}-\d{2}-\d{2}$
UndatedKeys == {"misc/topic"}

\* re.match of the date pattern on the name of the key's parent directory
under_date_dir(k) == k \notin UndatedKeys

\* every recently modified topic directory, whatever its parent's name
find_active_discussions_any_dir(root, dirs) ==
    IF ~root THEN {} ELSE {k \in DOMAIN dirs : dirs[k].exists /\ dirs[k].recent}

\* the keys of the topic directories find_active_discussions returns
find_active_discussions(root, dirs) ==
    IF ~root THEN {}
    ELSE {k \in DOMAIN dirs :
             under_date_dir(k) /\ dirs[k].exists /\ dirs[k].recent}

\* the orders in which iterdir can yield them
Orders(S) ==
    {q \in [1..Cardinality(S) -> S] :
        \A i, j \in 1..Cardinality(S) : i # j => q[i] # q[j]}

\* discuss_path.exists(): dirs holds what is at discuss_root / key
path_exists(dirs, key) == key \in DOMAIN dirs /\ dirs[key].exists

\* discuss_path.is_dir(): an entry of dirs is a directory unless it is
\* marked as a regular file
path_is_dir(dirs, key) ==
    path_exists(dirs, key) /\ ~Get(dirs[key], "is_file", FALSE)

RECURSIVE cleanup_keys_exists_only(_, _, _)
cleanup_keys_exists_only(discussions, keys, dirs) ==
    IF keys = {} THEN discussions
    ELSE LET key == CHOOSE k \in keys : TRUE
             kept == IF ~path_exists(dirs, key)
                     THEN Del(discussions, key) ELSE discussions
         IN  cleanup_keys_exists_only(kept, keys \ {key}, dirs)

RECURSIVE cleanup_keys(_, _, _)
cleanup_keys(discussions, keys, dirs) ==
    IF keys = {} THEN discussions
    ELSE LET key == CHOOSE k \in keys : TRUE
             kept == IF ~path_exists(dirs, key) \/ ~path_is_dir(dirs, key)
                     THEN Del(discussions, key) ELSE discussions
         IN  cleanup_keys(kept, keys \ {key}, dirs)

\* cleanup_deleted_discussions mutates the snapshot and returns the count
cleanup_deleted_discussions(snapshot, dirs) ==
    LET discussions == Get(snapshot, "discussions", EmptyDict)
        kept == cleanup_keys(discussions, DOMAIN discussions, dirs)
    IN  [snapshot |-> IF "discussions" \in DOMAIN snapshot
                      THEN Put(snapshot, "discussions", kept) ELSE snapshot,
         cleaned |-> Cardinality(DOMAIN discussions) - Cardinality(DOMAIN kept)]

\* ------------------------------------------------------ platform_utils.py
\* What is on standard input: nothing, text that is no JSON, a JSON value
\* that is no object and is truthy (a non-empty list or string, a number),
\* or a JSON object d.
EmptyStdin == [kind |-> "empty", d |-> EmptyDict]
InvalidStdin == [kind |-> "invalid", d |-> EmptyDict]
NonDictStdin == [kind |-> "nondict", d |-> EmptyDict]
DictStdin(d) == [kind |-> "dict", d |-> d]

None == [kind |-> "none", d |-> EmptyDict]

read_stdin_json(stdin) ==
    IF stdin.kind = "empty" THEN None
    ELSE IF stdin.kind = "invalid" THEN None
    ELSE stdin

\* Python's truth value of input_data
Truthy(input_data) ==
    input_data.kind = "nondict" \/ (input_data.kind = "dict" /\ input_data.d # EmptyDict)

detect_platform(d) ==
    IF "tool_name" \in DOMAIN d \/ "hook_event_name" \in DOMAIN d THEN "claude_code"
    ELSE IF "file_path" \in DOMAIN d /\ "tool_input" \notin DOMAIN d THEN "cursor"
    ELSE IF "status" \in DOMAIN d /\ d["status"] = "completed" THEN "cursor"
    ELSE "unknown"

is_stop_hook_active_ignored(d) == FALSE

is_stop_hook_active(d) == Get(d, "stop_hook_active", FALSE)

\* the JSON object {}
format_output_allow == EmptyDict

format_output_block_generic(message, platform) == [message |-> message]

format_output_block(message, platform) ==
    IF platform = "cursor" THEN [followup_message |-> message]
    ELSE IF platform = "claude_code" THEN [decision |-> "block", reason |-> message]
    ELSE [message |-> message]

\* ------------------------------------------------- check_precipitation.py
\* The reminder text, by its parts.
format_stale_reminder(discuss_key, change_count, threshold, is_force) ==
    [header |-> IF is_force THEN "Precipitation Required"
                ELSE "Precipitation Suggestion",
     discussion |-> discuss_key,
     change_count |-> change_count,
     threshold |-> threshold,
     path |-> <<".discuss", discuss_key>>,
     closing |-> IF is_force
                 THEN "Please update the discussion files before continuing."
                 ELSE "Would you like me to help update the decisions/notes?"]

needs_reminder_above(change_count, threshold) == change_count > threshold

needs_reminder(change_count, threshold) == change_count >= threshold

force_threshold_plus(threshold) == threshold + 2

force_threshold(threshold) == threshold * 2

\* The for loop over active_discussions.  counts keeps, by key, the
\* change_count that was compared with the threshold.
\* "Check if reminder is needed", for change_count of discuss_key
add_reminder_always(stale_reminders, discuss_key, change_count, threshold, is_force) ==
    Append(stale_reminders,
           [reminder |-> format_stale_reminder(
                             discuss_key, change_count, threshold, is_force),
            is_force |-> is_force])

add_reminder(stale_reminders, discuss_key, change_count, threshold, is_force) ==
    IF needs_reminder(change_count, threshold)
    THEN Append(stale_reminders,
                [reminder |-> format_stale_reminder(
                                  discuss_key, change_count, threshold, is_force),
                 is_force |-> is_force])
    ELSE stale_reminders

\* the loop state after the body has run for discuss_key, with r the result
\* of compare_and_update
after_compare_unstored(loop, discuss_key, r, threshold) ==
    [snapshot |-> loop.snapshot,
     stale_reminders |-> add_reminder(loop.stale_reminders, discuss_key, r.ret,
                             threshold, r.ret >= force_threshold(threshold)),
     counts |-> Put(loop.counts, discuss_key, r.ret)]

after_compare(loop, discuss_key, r, threshold) ==
    [snapshot |-> Put(loop.snapshot, "discussions",
                      Put(Get(loop.snapshot, "discussions", EmptyDict),
                          discuss_key, r.new_state)),
     stale_reminders |-> add_reminder(loop.stale_reminders, discuss_key, r.ret,
                             threshold, r.ret >= force_threshold(threshold)),
     counts |-> Put(loop.counts, discuss_key, r.ret)]

old_state_of(snapshot, discuss_key) ==
    Get(Get(snapshot, "discussions", EmptyDict), discuss_key, EmptyDict)

RECURSIVE check_discussions(_, _, _, _)
check_discussions(order, scan, loop, threshold) ==
    IF order = <<>> THEN loop
    ELSE check_discussions(
             Tail(order), scan,
             after_compare(loop, Head(order),
                 compare_and_update(old_state_of(loop.snapshot, Head(order)),
                                    scan[Head(order)]),
                 threshold),
             threshold)

\* How the try block of main ends: sys.exit raises SystemExit, anything else
\* that escapes is an Exception.  store is the store file as the block left
\* it; the remaining fields record what the run did.
AllowExit(file) ==
    [signal |-> "SystemExit", raised |-> FALSE,
     stdout |-> <<format_output_allow>>, exit |-> 0,
     store |-> file, saved |-> FALSE, save_ok |-> FALSE, cleaned |-> 0,
     counts |-> EmptyDict, threshold |-> 0, has_force |-> FALSE]

RaiseException(file) ==
    [signal |-> "Exception", raised |-> TRUE, stdout |-> <<>>, exit |-> 1,
     store |-> file, saved |-> FALSE, save_ok |-> FALSE, cleaned |-> 0,
     counts |-> EmptyDict, threshold |-> 0, has_force |-> FALSE]

StopFaults == {"none", "listing", "scan"}

\* the text between two reminders
Separator == [text |-> "\\n\\n---\\n\\n"]

RECURSIVE join(_, _)
\* separator.join(texts): the texts in order with the separator between
\* every two of them
join(separator, texts) ==
    IF Len(texts) <= 1 THEN texts
    ELSE <<Head(texts), separator>> \o join(separator, Tail(texts))

\* "\n\n---\n\n".join(reminder for reminder, _ in stale_reminders)
combined_reminder(stale_reminders) ==
    join(Separator, [i \in 1..Len(stale_reminders) |-> stale_reminders[i].reminder])

\* block_and_exit when there are reminders, allow_and_exit otherwise
respond(stale_reminders, platform) ==
    IF stale_reminders # <<>>
    THEN <<format_output_block(combined_reminder(stale_reminders), platform)>>
    ELSE <<format_output_allow>>

\* what save_snapshot is given: the snapshot after the clean-up
saved_after_cleanup(file, cleanup, saveFault) ==
    save_snapshot(file, cleanup.snapshot, saveFault)

\* main after the loop: clean up, save, respond
after_loop(loop, cleanup, threshold, platform, saveFault, file) ==
    [signal |-> "SystemExit", raised |-> FALSE,
     stdout |-> respond(loop.stale_reminders, platform),
     exit |-> 0,
     store |-> saved_after_cleanup(file, cleanup, saveFault),
     saved |-> TRUE,
     save_ok |-> (saveFault = "none"),
     cleaned |-> cleanup.cleaned,
     counts |-> loop.counts,
     threshold |-> threshold,
     has_force |-> \E i \in 1..Len(loop.stale_reminders) :
                      loop.stale_reminders[i].is_force]

finish_run(loop, threshold, platform, saveFault, dirs, file) ==
    after_loop(loop, cleanup_deleted_discussions(loop.snapshot, dirs),
               threshold, platform, saveFault, file)

\* platform = detect_platform(input_data) if input_data else Platform.UNKNOWN
platform_of(input_data) ==
    IF Truthy(input_data) THEN detect_platform(input_data.d) ELSE "unknown"

\* The try block of main.  fault: an OSError escapes find_active_discussions
\* ("listing": iterdir on an unreadable directory) or scan_discussion
\* ("scan": exists or glob on an unreadable directory).
try_block(input_data, fault, saveFault, order, scan, root, dirs, file) ==
    IF input_data.kind = "nondict" THEN RaiseException(file)
    ELSE
    LET platform == platform_of(input_data)
    IN  IF Truthy(input_data) /\ is_stop_hook_active(input_data.d)
        THEN AllowExit(file)
        ELSE IF ~root THEN AllowExit(file)
        ELSE
        LET snapshot == load_snapshot(file)
            threshold == Get(Get(snapshot, "config", EmptyDict),
                             "stale_threshold", 3)
        IN  IF threshold_raises(snapshot) THEN RaiseException(file)
            ELSE IF fault = "listing" THEN RaiseException(file)
            ELSE IF find_active_discussions(root, dirs) = {} THEN AllowExit(file)
            ELSE IF fault = "scan" THEN RaiseException(file)
            ELSE IF loop_raises(snapshot) THEN RaiseException(file)
            ELSE finish_run(
                     check_discussions(order, scan,
                         [snapshot |-> snapshot, stale_reminders |-> <<>>,
                          counts |-> EmptyDict],
                         threshold),
                     threshold, platform, saveFault, dirs, file)

except_everything(body) ==
    [body EXCEPT !.stdout = Append(@, format_output_allow), !.exit = 0]

\* except Exception: allow_and_exit().  SystemExit is no Exception.
except_Exception(body) ==
    IF body.signal = "Exception"
    THEN [body EXCEPT !.stdout = Append(@, format_output_allow), !.exit = 0]
    ELSE body

main(stdin, fault, saveFault, order, scan, root, dirs, file) ==
    except_Exception(
        try_block(read_stdin_json(stdin), fault, saveFault, order, scan,
                  root, dirs, file))

\* ------------------------------------------------------- comparator inputs
FileEntries(names) == [name : names, mtime : 1..MaxFileTime]

\* the listings of a directory: each name at most once, in any order
FileLists(names) ==
    {s \in UNION {[1..n -> FileEntries(names)] : n \in 0..Cardinality(names)} :
        \A i, j \in 1..Len(s) : i # j => s[i].name # s[j].name}

\* what scan_discussion can return: change_count is 0
Scans ==
    [outline : [mtime : 0..MaxTime, change_count : {0}],
     decisions : FileLists(DecisionNames),
     notes : FileLists(NoteNames)]

\* what the store can hold for a discussion
StoredStates ==
    [outline : [mtime : 0..MaxTime, change_count : 0..MaxCount],
     decisions : FileLists(DecisionNames),
     notes : FileLists(NoteNames)]

\* -------------------------------------------------------- meta_parser.py
DEFAULT_SUGGEST_UPDATE_RUNS == 3
DEFAULT_FORCE_UPDATE_RUNS == 10

FileTypes == {"outline", "decisions", "notes"}

\* a YAML value that is no mapping (a number, a string, a list)
NotADict == [notdict |-> TRUE]
IsDict(v) == "notdict" \notin DOMAIN v

\* meta.yaml: absent, empty (yaml.safe_load gives None), unparsable
\* (yaml.safe_load raises), or holding the YAML value doc
EmptyMetaFile == [kind |-> "empty", doc |-> EmptyDict]

\* how a function of meta_parser ends: with a value, or raising
Returns(v) == [raised |-> FALSE, value |-> v]
Raises == [raised |-> TRUE, value |-> EmptyDict]

MetaFaults == {"none", "open"}

\* load_meta: None when the file is absent (or empty); open and
\* yaml.safe_load raise to the caller
load_meta(file, loadFault) ==
    IF file.kind = "absent" THEN Returns(None)
    ELSE IF loadFault = "open" THEN Raises
    ELSE IF file.kind = "unparsable" THEN Raises
    ELSE IF file.kind = "empty" THEN Returns(None)
    ELSE Returns(file.doc)

\* save_meta: open raises before the file is touched; a failure after
\* open(path, "w") has truncated the file leaves it empty or cut off
save_meta(file, meta, saveFault) ==
    IF saveFault = "none" THEN [raised |-> FALSE, file |-> YamlFile(meta)]
    ELSE IF saveFault = "open" THEN [raised |-> TRUE, file |-> file]
    ELSE IF saveFault = "write_empty" THEN [raised |-> TRUE, file |-> EmptyMetaFile]
    ELSE [raised |-> TRUE, file |-> UnparsableFile]

FreshStatus == [last_modified_run |-> 0, pending_update |-> FALSE]

create_initial_meta ==
    [created_at |-> "now",
     current_run |-> 0,
     config |-> [suggest_update_runs |-> DEFAULT_SUGGEST_UPDATE_RUNS,
                 force_update_runs |-> DEFAULT_FORCE_UPDATE_RUNS],
     file_status |-> [t \in FileTypes |-> FreshStatus]]

\* the config and file_status parts of ensure_meta_structure
ensure_config(config) ==
    (IF "suggest_update_runs" \in DOMAIN config THEN EmptyDict
     ELSE [suggest_update_runs |-> DEFAULT_SUGGEST_UPDATE_RUNS])
    @@ (IF "force_update_runs" \in DOMAIN config THEN EmptyDict
        ELSE [force_update_runs |-> DEFAULT_FORCE_UPDATE_RUNS])
    @@ config

ensure_status(status) ==
    (IF "last_modified_run" \in DOMAIN status THEN EmptyDict
     ELSE [last_modified_run |-> 0])
    @@ (IF "pending_update" \in DOMAIN status THEN EmptyDict
        ELSE [pending_update |-> FALSE])
    @@ status

ensure_file_status(file_status) ==
    [t \in FileTypes |->
        IF t \in DOMAIN file_status THEN ensure_status(file_status[t])
        ELSE FreshStatus] @@ file_status

\* a membership test or an item assignment on a value that is no mapping
\* raises TypeError
ensure_meta_structure(meta) ==
    IF ~IsDict(meta) THEN Raises
    ELSE IF "config" \in DOMAIN meta /\ ~IsDict(meta["config"]) THEN Raises
    ELSE IF "file_status" \in DOMAIN meta /\ ~IsDict(meta["file_status"]) THEN Raises
    ELSE IF "file_status" \in DOMAIN meta
            /\ \E t \in FileTypes \cap DOMAIN meta["file_status"] :
                   ~IsDict(meta["file_status"][t]) THEN Raises
    ELSE Returns(
        Put(Put(Put(meta, "current_run", Get(meta, "current_run", 0)),
                "config", ensure_config(Get(meta, "config", EmptyDict))),
            "file_status",
            ensure_file_status(Get(meta, "file_status", EmptyDict))))

\* meta["file_status"][file_type]["pending_update"] = True
mark_pending(meta, file_type) ==
    Put(meta, "file_status",
        Put(meta["file_status"], file_type,
            Put(meta["file_status"][file_type], "pending_update", TRUE)))

set_after_ensure(ensured, file_type) ==
    IF ensured.raised THEN Raises
    ELSE Returns(mark_pending(ensured.value, file_type))

\* set_pending_update ensures the structure itself before it sets the flag
set_pending_update(meta, file_type) ==
    set_after_ensure(ensure_meta_structure(meta), file_type)

\* one pass of the loop of clear_pending_and_update_run
clear_status_next_run(status, current_run) ==
    IF IsDict(status) /\ Get(status, "pending_update", FALSE)
    THEN Put(Put(status, "last_modified_run", current_run + 1),
             "pending_update", FALSE)
    ELSE status

clear_status(status, current_run) ==
    IF IsDict(status) /\ Get(status, "pending_update", FALSE)
    THEN Put(Put(status, "last_modified_run", current_run),
             "pending_update", FALSE)
    ELSE status

clear_after_ensure(ensured) ==
    IF ensured.raised THEN Raises
    ELSE Returns(
        Put(Put(ensured.value, "file_status",
                [t \in DOMAIN ensured.value["file_status"] |->
                    clear_status(ensured.value["file_status"][t],
                                 ensured.value["current_run"])]),
            "current_run", ensured.value["current_run"] + 1))

clear_pending_and_update_run(meta) ==
    clear_after_ensure(ensure_meta_structure(meta))

\* stale_runs = current_run - last_modified, as check_stale_status computes
\* it for file_type
stale_runs(meta, file_type) ==
    meta["current_run"]
        - Get(Get(meta["file_status"], file_type, EmptyDict),
              "last_modified_run", 0)

\* the item check_stale_status appends for file_type, if any
stale_item(meta, file_type) ==
    IF stale_runs(meta, file_type)
          >= Get(meta["config"], "suggest_update_runs", DEFAULT_SUGGEST_UPDATE_RUNS)
    THEN <<[file_type |-> file_type,
            stale_runs |-> stale_runs(meta, file_type),
            is_force |-> stale_runs(meta, file_type)
                >= Get(meta["config"], "force_update_runs",
                       DEFAULT_FORCE_UPDATE_RUNS)]>>
    ELSE <<>>

\* only outline and decisions are checked
stale_after_ensure(ensured) ==
    IF ensured.raised THEN Raises
    ELSE Returns(stale_item(ensured.value, "outline")
                 \o stale_item(ensured.value, "decisions"))

check_stale_status(meta) == stale_after_ensure(ensure_meta_structure(meta))

\* ---------------------------------- platform_utils.py: the edited path
\* A JSON value for file_path: a string naming a path (the directory it
\* lies under and the parts below it), the empty string, or a value that
\* is no string.
DiscussDir == "2026-01-28/topic"
PathValue(dir, parts) == [type |-> "str", dir |-> dir, parts |-> parts]
EmptyString == [type |-> "str", dir |-> "", parts |-> <<>>]
NotAString == [type |-> "int", dir |-> "", parts |-> <<>>]
NoPath == [type |-> "none", dir |-> "", parts |-> <<>>]

\* a JSON value for tool_input: an object or not
ToolInput(d) == [isdict |-> TRUE, d |-> d]
NotAToolInput == [isdict |-> FALSE, d |-> EmptyDict]

ListStdin == [kind |-> "list", d |-> EmptyDict]

\* on a list both membership tests are false; on a number they raise
get_file_path_from_input(input_data) ==
    IF input_data.kind = "none" THEN Returns(NoPath)
    ELSE IF input_data.kind = "list" THEN Returns(NoPath)
    ELSE IF input_data.kind = "nondict" THEN Raises
    ELSE IF "file_path" \in DOMAIN input_data.d
    THEN Returns(input_data.d["file_path"])
    ELSE IF "tool_input" \in DOMAIN input_data.d
            /\ input_data.d["tool_input"].isdict
    THEN Returns(Get(input_data.d["tool_input"].d, "file_path", NoPath))
    ELSE Returns(NoPath)

\* Python's truth value of file_path_str
TruthyPath(v) == v.type = "int" \/ (v.type = "str" /\ v # EmptyString)

\* ------------------------------------------------------ file_utils.py
NoRoot == ""

\* the directory above the path that holds meta.yaml, None when there is
\* none
find_discuss_root(file_path, file) ==
    IF file_path.dir = DiscussDir /\ file.kind # "absent" THEN DiscussDir
    ELSE NoRoot

\* ---------------------------------------------------- track_file_edit.py
NoType == "none"

determine_file_type(file_path, discuss_root) ==
    IF file_path.dir # discuss_root THEN NoType
    ELSE IF file_path.parts = <<>> THEN NoType
    ELSE IF file_path.parts[Len(file_path.parts)] = "outline.md" THEN "outline"
    ELSE IF file_path.parts[1] = "decisions" THEN "decisions"
    ELSE IF file_path.parts[1] = "notes" THEN "notes"
    ELSE NoType

\* How the try block of main ends: sys.exit raises SystemExit, anything
\* else that escapes is an Exception.  meta is meta.yaml as the block left it.
EditAllow(file, file_type, saved) ==
    [signal |-> "SystemExit", raised |-> FALSE,
     stdout |-> <<format_output_allow>>, exit |-> 0,
     meta |-> file, file_type |-> file_type, saved |-> saved]

EditRaise(file, file_type) ==
    [signal |-> "Exception", raised |-> TRUE, stdout |-> <<>>, exit |-> 1,
     meta |-> file, file_type |-> file_type, saved |-> FALSE]

\* save_meta and what follows it
edit_after_save(written, file_type) ==
    IF written.raised THEN EditRaise(written.file, file_type)
    ELSE EditAllow(written.file, file_type, TRUE)

\* set_pending_update and what follows it
edit_save(file, pending, file_type, saveFault) ==
    IF pending.raised THEN EditRaise(file, file_type)
    ELSE edit_after_save(save_meta(file, pending.value, saveFault), file_type)

\* "Load or create meta.yaml" and what follows it
edit_with_meta(file, loaded, file_type, saveFault) ==
    IF loaded.raised THEN EditRaise(file, file_type)
    ELSE IF loaded.value = None
    THEN edit_save(file, set_pending_update(create_initial_meta, file_type),
                   file_type, saveFault)
    ELSE edit_save(file, set_pending_update(loaded.value, file_type),
                   file_type, saveFault)

\* main from Path(file_path_str) on
edit_tracked(file, file_path, discuss_root, loadFault, saveFault) ==
    IF discuss_root = NoRoot THEN EditAllow(file, NoType, FALSE)
    ELSE IF determine_file_type(file_path, discuss_root) = NoType
    THEN EditAllow(file, NoType, FALSE)
    ELSE edit_with_meta(file, load_meta(file, loadFault),
                        determine_file_type(file_path, discuss_root), saveFault)

\* main from get_file_path_from_input on; Path(x) raises on a non-string
edit_with_path(file, path, loadFault, saveFault) ==
    IF path.raised THEN EditRaise(file, NoType)
    ELSE IF ~TruthyPath(path.value) THEN EditAllow(file, NoType, FALSE)
    ELSE IF path.value.type # "str" THEN EditRaise(file, NoType)
    ELSE edit_tracked(file, path.value, find_discuss_root(path.value, file),
                      loadFault, saveFault)

\* the try block of main
edit_try_block(input_data, file, loadFault, saveFault) ==
    IF input_data = None THEN EditAllow(file, NoType, FALSE)
    ELSE edit_with_path(file, get_file_path_from_input(input_data),
                        loadFault, saveFault)

\* the handler lets the exception go
edit_except_reraise(body) == body

\* except Exception: allow_and_exit().  SystemExit is no Exception.
edit_except_Exception(body) ==
    IF body.signal = "Exception"
    THEN [body EXCEPT !.stdout = Append(@, format_output_allow), !.exit = 0]
    ELSE body

track_file_edit_main(stdin, file, loadFault, saveFault) ==
    edit_except_Exception(
        edit_try_block(read_stdin_json(stdin), file, loadFault, saveFault))

\* ------------------------------------------- the hooks: state and steps
IdleStop ==
    [pc |-> "idle", stdin |-> "", reentry |-> FALSE, stdout |-> <<>>, exit |-> 0,
     raised |-> FALSE, saved |-> FALSE, save_ok |-> FALSE, cleaned |-> 0,
     counts |-> EmptyDict, threshold |-> 0, has_force |-> FALSE]

NoScenario == [turn |-> "off", runs |-> 0]

IdleEdit ==
    [pc |-> "idle", stdin |-> "", stdout |-> <<>>, exit |-> 0, raised |-> FALSE,
     saved |-> FALSE, file_type |-> NoType]

\* nothing called on its own, no processes side by side
NoCall == [op |-> "none"]
AuxAtRest ==
    /\ call = NoCall
    /\ procs = <<>>

\* no meta.yaml, no edit under way
EditAtRest ==
    /\ metaFile = AbsentFile
    /\ edit = IdleEdit
    /\ AuxAtRest

\* before anything was discussed: no .discuss directory, no store
HooksAtRest ==
    /\ discussRoot = FALSE
    /\ fs = [k \in Keys |-> NoDir(HookDecisionNames, HookNoteNames)]
    /\ storeFile = AbsentFile
    /\ stop = IdleStop
    /\ scenario = NoScenario
    /\ EditAtRest

ComparatorAtRest ==
    /\ cmpOld = EmptyDict
    /\ cmpNew = EmptyDict
    /\ cmpScan = EmptyDict
    /\ cmpRet = -1
    /\ cmpPc = "off"

\* what the hook can find on standard input
StopInputs ==
    {EmptyStdin, InvalidStdin, NonDictStdin,
     DictStdin([hook_event_name |-> "Stop", stop_hook_active |-> FALSE]),
     DictStdin([hook_event_name |-> "Stop", stop_hook_active |-> TRUE]),
     DictStdin([status |-> "completed"]),
     DictStdin([status |-> "aborted"])}

\* ---- the user and the assistant change the files
CreateDiscussion(k) ==
    /\ stop.pc = "idle"
    /\ ~fs[k].exists
    /\ discussRoot' = TRUE
    /\ fs' = [fs EXCEPT ![k].exists = TRUE, ![k].recent = TRUE]
    /\ UNCHANGED <<storeFile, stop>>
    /\ UNCHANGED <<cmpVars, editVars, auxVars>>

DeleteDiscussion(k) ==
    /\ stop.pc = "idle"
    /\ fs[k].exists
    /\ fs' = [fs EXCEPT ![k] = NoDir(DOMAIN fs[k].decisions, DOMAIN fs[k].notes)]
    /\ UNCHANGED <<discussRoot, storeFile, stop>>
    /\ UNCHANGED <<cmpVars, editVars, auxVars>>

\* outline.md is written, or replaced by a copy with another mtime
WriteOutline(k, t) ==
    /\ stop.pc = "idle"
    /\ fs[k].exists
    /\ t # fs[k].outline
    /\ fs' = [fs EXCEPT ![k].outline = t, ![k].recent = TRUE]
    /\ UNCHANGED <<discussRoot, storeFile, stop>>
    /\ UNCHANGED <<cmpVars, editVars, auxVars>>

DeleteOutline(k) ==
    /\ stop.pc = "idle"
    /\ fs[k].exists
    /\ fs[k].outline > 0
    /\ fs' = [fs EXCEPT ![k].outline = 0, ![k].recent = TRUE]
    /\ UNCHANGED <<discussRoot, storeFile, stop>>
    /\ UNCHANGED <<cmpVars, editVars, auxVars>>

WriteDecision(k, n, t) ==
    /\ stop.pc = "idle"
    /\ fs[k].exists
    /\ t # fs[k].decisions[n]
    /\ fs' = [fs EXCEPT ![k].decisions[n] = t, ![k].recent = TRUE]
    /\ UNCHANGED <<discussRoot, storeFile, stop>>
    /\ UNCHANGED <<cmpVars, editVars, auxVars>>

RemoveDecision(k, n) ==
    /\ stop.pc = "idle"
    /\ fs[k].exists
    /\ fs[k].decisions[n] > 0
    /\ fs' = [fs EXCEPT ![k].decisions[n] = 0, ![k].recent = TRUE]
    /\ UNCHANGED <<discussRoot, storeFile, stop>>
    /\ UNCHANGED <<cmpVars, editVars, auxVars>>

WriteNote(k, n, t) ==
    /\ stop.pc = "idle"
    /\ fs[k].exists
    /\ t # fs[k].notes[n]
    /\ fs' = [fs EXCEPT ![k].notes[n] = t, ![k].recent = TRUE]
    /\ UNCHANGED <<discussRoot, storeFile, stop>>
    /\ UNCHANGED <<cmpVars, editVars, auxVars>>

RemoveNote(k, n) ==
    /\ stop.pc = "idle"
    /\ fs[k].exists
    /\ fs[k].notes[n] > 0
    /\ fs' = [fs EXCEPT ![k].notes[n] = 0, ![k].recent = TRUE]
    /\ UNCHANGED <<discussRoot, storeFile, stop>>
    /\ UNCHANGED <<cmpVars, editVars, auxVars>>

\* 24 hours pass without a change under the directory
Age(k) ==
    /\ stop.pc = "idle"
    /\ fs[k].exists
    /\ fs[k].recent
    /\ fs' = [fs EXCEPT ![k].recent = FALSE]
    /\ UNCHANGED <<discussRoot, storeFile, stop>>
    /\ UNCHANGED <<cmpVars, editVars, auxVars>>

\* ---- the user edits the store by hand
EditThreshold(t) ==
    /\ stop.pc = "idle"
    /\ discussRoot
    /\ storeFile' =
         IF storeFile.kind = "yaml"
         THEN YamlFile(Put(storeFile.doc, "config",
                           Put(Get(storeFile.doc, "config", EmptyDict),
                               "stale_threshold", t)))
         ELSE YamlFile([config |-> [stale_threshold |-> t]])
    /\ storeFile' # storeFile
    /\ UNCHANGED <<discussRoot, fs, stop>>
    /\ UNCHANGED <<cmpVars, editVars, auxVars>>

DeleteStore ==
    /\ stop.pc = "idle"
    /\ storeFile.kind # "absent"
    /\ storeFile' = AbsentFile
    /\ UNCHANGED <<discussRoot, fs, stop>>
    /\ UNCHANGED <<cmpVars, editVars, auxVars>>

CorruptStore ==
    /\ stop.pc = "idle"
    /\ discussRoot
    /\ storeFile.kind # "unparsable"
    /\ storeFile' = UnparsableFile
    /\ UNCHANGED <<discussRoot, fs, stop>>
    /\ UNCHANGED <<cmpVars, editVars, auxVars>>

\* ---- the conversation-end hook
StoredCounts(file) ==
    LET discussions == Get(file.doc, "discussions", EmptyDict)
    IN  {discussions[k].outline.change_count : k \in DOMAIN discussions}

\* the process after main has ended with r
Exited(stdin, r) ==
    /\ stop' = [pc |-> "exited", stdin |-> stdin.kind,
                reentry |-> Get(stdin.d, "stop_hook_active", FALSE),
                stdout |-> r.stdout,
                exit |-> r.exit, raised |-> r.raised,
                saved |-> r.saved, save_ok |-> r.save_ok,
                cleaned |-> r.cleaned, counts |-> r.counts,
                threshold |-> r.threshold, has_force |-> r.has_force]
    /\ storeFile' = r.store

\* one invocation, from reading standard input to process exit
RunStopHook(stdin, fault, saveFault, order, scan) ==
    Exited(stdin,
           main(stdin, fault, saveFault, order, scan, discussRoot, fs, storeFile))

ScanChoices(active) ==
    {scan \in [active -> UNION {ScanResults(fs[k]) : k \in active}] :
        \A k \in active : scan[k] \in ScanResults(fs[k])}

\* cap bounds the model: the hook does not start once a stored count is cap
StopHook(stdin, fault, saveFault, cap) ==
    /\ stop.pc = "idle"
    /\ \A c \in StoredCounts(storeFile) : c < cap
    /\ LET active == find_active_discussions(discussRoot, fs)
       IN  \E order \in Orders(active), scan \in ScanChoices(active) :
               RunStopHook(stdin, fault, saveFault, order, scan)
    /\ UNCHANGED <<discussRoot, fs>>
    /\ UNCHANGED <<cmpVars, editVars, auxVars>>

\* the host has read the response; the process is gone
HostCollects ==
    /\ stop.pc = "exited"
    /\ stop' = IdleStop
    /\ UNCHANGED <<discussRoot, fs, storeFile>>
    /\ UNCHANGED <<cmpVars, editVars, auxVars>>

Init ==
    /\ HooksAtRest
    /\ ComparatorAtRest

Next ==
    \/ \E k \in Keys : CreateDiscussion(k) /\ UNCHANGED scenario
    \/ \E k \in Keys : DeleteDiscussion(k) /\ UNCHANGED scenario
    \/ \E k \in Keys, t \in 1..MaxTime : WriteOutline(k, t) /\ UNCHANGED scenario
    \/ \E k \in Keys : DeleteOutline(k) /\ UNCHANGED scenario
    \/ \E k \in Keys, n \in HookDecisionNames, t \in 1..MaxFileTime :
           WriteDecision(k, n, t) /\ UNCHANGED scenario
    \/ \E k \in Keys, n \in HookDecisionNames :
           RemoveDecision(k, n) /\ UNCHANGED scenario
    \/ \E k \in Keys, n \in HookNoteNames, t \in HookNoteTimes :
           WriteNote(k, n, t) /\ UNCHANGED scenario
    \/ \E k \in Keys, n \in HookNoteNames : RemoveNote(k, n) /\ UNCHANGED scenario
    \/ \E k \in Keys : Age(k) /\ UNCHANGED scenario
    \/ \E t \in Thresholds : EditThreshold(t) /\ UNCHANGED scenario
    \/ DeleteStore /\ UNCHANGED scenario
    \/ CorruptStore /\ UNCHANGED scenario
    \/ \E stdin \in StopInputs, fault \in StopFaults, saveFault \in SaveFaults :
           /\ fault = "none" \/ saveFault = "none"
           /\ StopHook(stdin, fault, saveFault, HookMaxCount)
           /\ UNCHANGED scenario
    \/ HostCollects /\ UNCHANGED scenario

Spec == Init /\ [][Next]_vars

\* ---------------------------------------------- the end-to-end scenarios
\* One discussion that has only an outline, an empty store (threshold 3),
\* and conversation-end runs that each follow a strict increase of the
\* outline mtime; then a decision file appears with the outline unchanged
\* and the hook runs once more.  scenario.runs counts the runs of the first
\* part.
ScenarioKey == CHOOSE k \in Keys : TRUE

\* the inputs of a run that is no re-entry and is well-formed or absent
ScenarioInputs ==
    {stdin \in StopInputs :
        stdin.kind # "nondict" /\ ~Get(stdin.d, "stop_hook_active", FALSE)}

InitScenario ==
    /\ ComparatorAtRest
    /\ discussRoot = TRUE
    /\ fs = [k \in Keys |->
               [NoDir(HookDecisionNames, HookNoteNames)
                   EXCEPT !.exists = (k = ScenarioKey), !.recent = (k = ScenarioKey)]]
    /\ storeFile \in {AbsentFile, YamlFile(create_default_snapshot)}
    /\ stop = IdleStop
    /\ scenario = [turn |-> "edit", runs |-> 0]
    /\ EditAtRest

ScenarioEditOutline(t) ==
    /\ scenario.turn = "edit"
    /\ t > fs[ScenarioKey].outline
    /\ WriteOutline(ScenarioKey, t)
    /\ scenario' = [scenario EXCEPT !.turn = "run"]

ScenarioRun(stdin) ==
    /\ scenario.turn = "run"
    /\ StopHook(stdin, "none", "none", ScenarioMaxTime)
    /\ scenario' = [turn |-> "ran", runs |-> scenario.runs + 1]

ScenarioCollect ==
    /\ scenario.turn = "ran"
    /\ HostCollects
    /\ scenario' = [scenario EXCEPT !.turn = "edit"]

ScenarioAddDecision(n, t) ==
    /\ scenario.turn = "edit"
    /\ scenario.runs >= 1
    /\ WriteDecision(ScenarioKey, n, t)
    /\ scenario' = [scenario EXCEPT !.turn = "run_after_decision"]

ScenarioRunAfterDecision(stdin) ==
    /\ scenario.turn = "run_after_decision"
    /\ StopHook(stdin, "none", "none", ScenarioMaxTime + 1)
    /\ scenario' = [scenario EXCEPT !.turn = "reset"]

NextScenario ==
    \/ \E t \in 1..ScenarioMaxTime : ScenarioEditOutline(t)
    \/ \E stdin \in ScenarioInputs : ScenarioRun(stdin)
    \/ ScenarioCollect
    \/ \E n \in HookDecisionNames, t \in 1..MaxFileTime : ScenarioAddDecision(n, t)
    \/ \E stdin \in ScenarioInputs : ScenarioRunAfterDecision(stdin)

SpecScenario == InitScenario /\ [][NextScenario]_vars


\* ------------------------------------------------- the edit-time hook
\* the paths an edit can name
EditPaths ==
    {PathValue(DiscussDir, <<"outline.md">>),
     PathValue(DiscussDir, <<"decisions", "D01-choice.md">>),
     PathValue(DiscussDir, <<"notes", "research.md">>),
     PathValue(DiscussDir, <<"archive", "outline.md">>),
     PathValue(DiscussDir, <<"decisions", "outline.md">>),
     PathValue(DiscussDir, <<"README.md">>),
     PathValue(DiscussDir, <<>>),
     PathValue("elsewhere", <<"main.py">>)}

\* what the hook can find on standard input
EditInputs ==
    {EmptyStdin, InvalidStdin, NonDictStdin, ListStdin, DictStdin(EmptyDict),
     DictStdin([tool_input |-> NotAToolInput]),
     DictStdin([tool_input |-> ToolInput(EmptyDict)])}
    \cup {DictStdin([file_path |-> p]) :
              p \in EditPaths \cup {EmptyString, NotAString}}
    \cup {DictStdin([tool_name |-> "Write",
                     tool_input |-> ToolInput([file_path |-> p])]) :
              p \in EditPaths}

\* what a hand or another tool can leave in meta.yaml
MetaDocs ==
    {EmptyDict, NotADict, create_initial_meta,
     [current_run |-> 1],
     [config |-> NotADict],
     [file_status |-> [outline |-> NotADict]],
     [file_status |-> [decisions |-> [pending_update |-> TRUE]]]}

WriteMeta(doc) ==
    /\ edit.pc = "idle"
    /\ metaFile' = YamlFile(doc)
    /\ UNCHANGED <<edit, cmpVars, hookVars, auxVars>>

DeleteMeta ==
    /\ edit.pc = "idle"
    /\ metaFile.kind # "absent"
    /\ metaFile' = AbsentFile
    /\ UNCHANGED <<edit, cmpVars, hookVars, auxVars>>

TruncateMeta ==
    /\ edit.pc = "idle"
    /\ metaFile.kind = "yaml"
    /\ metaFile' = EmptyMetaFile
    /\ UNCHANGED <<edit, cmpVars, hookVars, auxVars>>

CorruptMeta ==
    /\ edit.pc = "idle"
    /\ metaFile.kind = "yaml"
    /\ metaFile' = UnparsableFile
    /\ UNCHANGED <<edit, cmpVars, hookVars, auxVars>>

\* the process after main has ended with r
EditExited(stdin, r) ==
    /\ edit' = [pc |-> "exited", stdin |-> stdin.kind, stdout |-> r.stdout,
                exit |-> r.exit, raised |-> r.raised, saved |-> r.saved,
                file_type |-> r.file_type]
    /\ metaFile' = r.meta

\* one invocation, from reading standard input to process exit
EditHook(stdin, loadFault, saveFault) ==
    /\ edit.pc = "idle"
    /\ EditExited(stdin, track_file_edit_main(stdin, metaFile, loadFault, saveFault))
    /\ UNCHANGED <<cmpVars, hookVars, auxVars>>

\* the host has read the response; the process is gone
EditCollects ==
    /\ edit.pc = "exited"
    /\ edit' = IdleEdit
    /\ UNCHANGED <<metaFile, cmpVars, hookVars, auxVars>>

InitEdit ==
    /\ HooksAtRest
    /\ ComparatorAtRest

NextEdit ==
    \/ \E doc \in MetaDocs : WriteMeta(doc)
    \/ DeleteMeta
    \/ TruncateMeta
    \/ CorruptMeta
    \/ \E stdin \in EditInputs, loadFault \in MetaFaults, saveFault \in SaveFaults :
           EditHook(stdin, loadFault, saveFault)
    \/ EditCollects

SpecEdit == InitEdit /\ [][NextEdit]_vars

InitCompare ==
    /\ cmpOld \in StoredStates \cup {EmptyDict}
    /\ cmpNew \in Scans
    /\ cmpScan = cmpNew
    /\ cmpRet = -1
    /\ cmpPc = "ready"
    /\ HooksAtRest

Compare ==
    /\ cmpPc = "ready"
    /\ LET r == compare_and_update(cmpOld, cmpNew)
       IN  /\ cmpRet' = r.ret
           /\ cmpNew' = r.new_state
    /\ cmpPc' = "called"
    /\ UNCHANGED <<cmpOld, cmpScan>>
    /\ UNCHANGED <<hookVars, editVars, auxVars>>

NextCompare == Compare

SpecCompare == InitCompare /\ [][NextCompare]_vars

\* ------------------------------------------------ comparator: properties
\* the files of a listing, as a set of (name, mtime) pairs
FilesOf(file_list) == {<<e.name, e.mtime>> : e \in {file_list[i] : i \in 1..Len(file_list)}}

\* a file was added, removed or has another mtime, in decisions/ or in notes/
CmpFilesDiffer ==
    \/ FilesOf(Get(cmpOld, "decisions", <<>>)) # FilesOf(cmpScan.decisions)
    \/ FilesOf(Get(cmpOld, "notes", <<>>)) # FilesOf(cmpScan.notes)

CmpOldCount == IF cmpOld = EmptyDict THEN 0 ELSE cmpOld.outline.change_count
CmpOldMtime == IF cmpOld = EmptyDict THEN 0 ELSE cmpOld.outline.mtime

\* C1: when the decisions or the notes of the old state and of the scan
\* differ, compare_and_update returns 0 and writes 0 into
\* new.outline.change_count, whatever the old count and however the outline
\* mtime moved.
C1_ResetHasPriority ==
    (cmpPc = "called" /\ CmpFilesDiffer)
        => (cmpRet = 0 /\ cmpNew.outline.change_count = 0)

\* a stored count above 0 is reset although the outline mtime rose and only
\* a note changed
C1_Witness ==
    /\ cmpPc = "called"
    /\ cmpOld # EmptyDict
    /\ cmpOld.outline.change_count > 0
    /\ FilesOf(cmpOld.decisions) = FilesOf(cmpScan.decisions)
    /\ FilesOf(cmpOld.notes) # FilesOf(cmpScan.notes)
    /\ cmpScan.outline.mtime > cmpOld.outline.mtime
    /\ cmpRet = 0

\* C2: with decisions and notes unchanged, a strictly greater outline mtime
\* makes compare_and_update return exactly the old change_count plus 1.
C2_IncrementByOne ==
    (cmpPc = "called" /\ ~CmpFilesDiffer /\ cmpScan.outline.mtime > CmpOldMtime)
        => cmpRet = CmpOldCount + 1

C2_Witness ==
    /\ cmpPc = "called"
    /\ cmpOld # EmptyDict
    /\ cmpOld.decisions # <<>>
    /\ ~CmpFilesDiffer
    /\ cmpOld.outline.change_count = MaxCount
    /\ cmpScan.outline.mtime > cmpOld.outline.mtime
    /\ cmpRet = MaxCount + 1

\* C3: with decisions and notes unchanged, an equal or strictly smaller
\* outline mtime makes compare_and_update return the old change_count.
C3_UnchangedOrDecreasedKeeps ==
    (cmpPc = "called" /\ ~CmpFilesDiffer /\ cmpScan.outline.mtime <= CmpOldMtime)
        => (cmpRet = CmpOldCount /\ cmpNew.outline.change_count = CmpOldCount)

\* the outline mtime went down and a count above 0 was kept
C3_Witness ==
    /\ cmpPc = "called"
    /\ cmpOld # EmptyDict
    /\ ~CmpFilesDiffer
    /\ cmpOld.outline.change_count > 0
    /\ cmpScan.outline.mtime < cmpOld.outline.mtime
    /\ cmpRet = cmpOld.outline.change_count

\* C4 as stated: with no prior state, the first scan in which the outline
\* exists yields change_count = 1.
C4_Original ==
    (cmpPc = "called" /\ cmpOld = EmptyDict /\ cmpScan.outline.mtime > 0)
        => cmpRet = 1

\* C4 amended: with no prior state the old count and the old outline mtime
\* are 0; the first scan in which the outline exists yields 1 when it lists
\* no decision and no note file, and 0 when it lists one (the listing then
\* differs from the empty prior listing and the reset has priority).
C4_NewDiscussion ==
    (cmpPc = "called" /\ cmpOld = EmptyDict /\ cmpScan.outline.mtime > 0)
        => /\ (cmpScan.decisions = <<>> /\ cmpScan.notes = <<>>) => cmpRet = 1
           /\ (cmpScan.decisions # <<>> \/ cmpScan.notes # <<>>) => cmpRet = 0
           /\ cmpNew.outline.change_count = cmpRet

C4_Witness ==
    /\ cmpPc = "called"
    /\ cmpOld = EmptyDict
    /\ cmpScan.outline.mtime > 0
    /\ cmpScan.decisions = <<>>
    /\ cmpScan.notes = <<>>
    /\ cmpRet = 1

\* ------------------------------------- conversation-end hook: properties
\* the reminder text the hook wrote, as the sequence of its reminders
StopMessage ==
    IF stop.stdout = <<>> \/ stop.stdout[1] = EmptyDict THEN <<>>
    ELSE LET o == stop.stdout[1]
         IN  IF "followup_message" \in DOMAIN o THEN o["followup_message"]
             ELSE IF "reason" \in DOMAIN o THEN o["reason"]
             ELSE o["message"]

RemindersFor(k) ==
    {i \in 1..Len(StopMessage) :
        StopMessage[i] # Separator /\ StopMessage[i].discussion = k}

ReminderLevel(k) ==
    IF RemindersFor(k) = {} THEN "none"
    ELSE IF \E i \in RemindersFor(k) : StopMessage[i].header = "Precipitation Required"
    THEN "force"
    ELSE "suggest"

\* the stale_threshold a store file holds; 3 when it holds none
StoredThreshold(file) ==
    IF file.kind = "yaml" /\ "config" \in DOMAIN file.doc
       /\ "stale_threshold" \in DOMAIN file.doc["config"]
    THEN file.doc["config"]["stale_threshold"]
    ELSE DEFAULT_STALE_THRESHOLD

\* C5: in a conversation-end run with stored threshold T, a processed
\* discussion whose change_count c after the comparison has T <= c < 2T gets
\* a suggest-level reminder, c >= 2T a force-level reminder and c < T none.
C5_ThresholdBoundary ==
    (stop.pc = "exited" /\ stop.saved) =>
        /\ stop.save_ok => stop.threshold = StoredThreshold(storeFile)
        /\ \A k \in DOMAIN stop.counts :
            LET c == stop.counts[k]
                T == stop.threshold
            IN  /\ (T <= c /\ c < 2 * T) => ReminderLevel(k) = "suggest"
                /\ c >= 2 * T => ReminderLevel(k) = "force"
                /\ c < T => ReminderLevel(k) = "none"

\* a run in which c = 2T was met with a force-level reminder
C5_Witness ==
    /\ stop.pc = "exited"
    /\ stop.save_ok
    /\ \E k \in DOMAIN stop.counts :
          /\ stop.counts[k] = 2 * StoredThreshold(storeFile)
          /\ ReminderLevel(k) = "force"

\* C8: an invocation whose input carries stop_hook_active = true answers {},
\* emits no reminder, compares, prunes and saves nothing and leaves the store
\* file as it was.
C8_ReentryShortCircuit ==
    [][(stop.pc = "idle" /\ stop'.pc = "exited" /\ stop'.reentry) =>
           /\ stop'.stdout = <<EmptyDict>>
           /\ stop'.exit = 0
           /\ storeFile' = storeFile
           /\ ~stop'.saved
           /\ stop'.cleaned = 0
           /\ stop'.counts = EmptyDict]_vars

\* the flag was set while an active discussion's stored count was at the
\* threshold
C8_Witness ==
    /\ stop.pc = "exited"
    /\ stop.reentry
    /\ stop.stdout = <<EmptyDict>>
    /\ \E k \in Keys :
          /\ fs[k].exists /\ fs[k].recent
          /\ storeFile.kind = "yaml"
          /\ k \in DOMAIN Get(storeFile.doc, "discussions", EmptyDict)
          /\ storeFile.doc["discussions"][k].outline.change_count
                 >= StoredThreshold(storeFile)

\* C9: every invocation of the conversation-end hook ends having written
\* exactly one JSON object with exit code 0, and when an exception reached
\* the handler of main that object is {}.
C9_OneResponseExitZero ==
    stop.pc = "exited" =>
        /\ Len(stop.stdout) = 1
        /\ stop.exit = 0
        /\ stop.raised => stop.stdout = <<EmptyDict>>

\* an exception was raised although a stored count is at the threshold
C9_Witness ==
    /\ stop.pc = "exited"
    /\ stop.raised
    /\ stop.stdout = <<EmptyDict>>
    /\ \E c \in StoredCounts(storeFile) : c >= StoredThreshold(storeFile)

\* ------------------------------------------ end-to-end scenarios: properties
ScenarioStoredCount ==
    IF storeFile.kind = "yaml"
       /\ ScenarioKey \in DOMAIN Get(storeFile.doc, "discussions", EmptyDict)
    THEN storeFile.doc["discussions"][ScenarioKey].outline.change_count
    ELSE -1

\* C6: from an empty store with threshold 3 and a discussion with only an
\* outline, after the k-th of k consecutive runs that each follow a strict
\* increase of the outline mtime the change_count is k; runs 1 and 2 emit no
\* reminder and run 3 a suggest reminder that names threshold 3; a following
\* run with the outline unchanged and a new decision file resets the
\* change_count to 0 and emits no reminder.
C6_SuggestScenario ==
    /\ scenario.turn = "ran" =>
          /\ stop.counts[ScenarioKey] = scenario.runs
          /\ ScenarioStoredCount = scenario.runs
          /\ scenario.runs < DEFAULT_STALE_THRESHOLD =>
                 (ReminderLevel(ScenarioKey) = "none" /\ stop.stdout = <<EmptyDict>>)
          /\ scenario.runs = DEFAULT_STALE_THRESHOLD =>
                 /\ ReminderLevel(ScenarioKey) = "suggest"
                 /\ \A i \in RemindersFor(ScenarioKey) :
                        /\ StopMessage[i].threshold = DEFAULT_STALE_THRESHOLD
                        /\ StopMessage[i].change_count = DEFAULT_STALE_THRESHOLD
    /\ scenario.turn = "reset" =>
          /\ stop.counts[ScenarioKey] = 0
          /\ ScenarioStoredCount = 0
          /\ stop.stdout = <<EmptyDict>>

\* the decision file appeared after the third run had reminded
C6_Witness ==
    /\ scenario.turn = "reset"
    /\ scenario.runs >= DEFAULT_STALE_THRESHOLD
    /\ ScenarioStoredCount = 0
    /\ stop.stdout = <<EmptyDict>>

\* C7: with threshold 3, six consecutive runs that each observe an
\* outline-only modification give change_count 6 on the sixth run, whose
\* reminder is force-level; runs 3, 4 and 5 give suggest-level reminders; the
\* force message differs from the suggest message in header and closing.
C7_ForceScenario ==
    scenario.turn = "ran" =>
        /\ scenario.runs \in 3..5 => ReminderLevel(ScenarioKey) = "suggest"
        /\ scenario.runs = 6 =>
              /\ stop.counts[ScenarioKey] = 6
              /\ ScenarioStoredCount = 6
              /\ ReminderLevel(ScenarioKey) = "force"
              /\ stop.has_force
        /\ \A i \in RemindersFor(ScenarioKey) :
              LET m == StopMessage[i]
                  other == format_stale_reminder(m.discussion, m.change_count,
                               m.threshold, ReminderLevel(ScenarioKey) # "force")
              IN  /\ m.header # other.header
                  /\ m.closing # other.closing
                  /\ (ReminderLevel(ScenarioKey) = "force") <=>
                         (m.closing = "Please update the discussion files before continuing.")

C7_Witness ==
    /\ scenario.turn = "ran"
    /\ scenario.runs = 6
    /\ ReminderLevel(ScenarioKey) = "force"

\* ------------------------------------------- edit-time hook: properties
\* C10: every invocation of the edit-time hook ends having written exactly
\* one JSON object, which is {}, with exit code 0, whatever the input and
\* whatever failed while meta.yaml was loaded or saved.
C10_EditAlwaysAllows ==
    edit.pc = "exited" =>
        /\ edit.stdout = <<EmptyDict>>
        /\ edit.exit = 0

\* loading or saving meta.yaml failed on an edit of a tracked file
C10_Witness ==
    /\ edit.pc = "exited"
    /\ edit.raised
    /\ edit.file_type \in FileTypes
    /\ edit.stdout = <<EmptyDict>>
    /\ edit.exit = 0

\* ------------------------------------------ blocking and severity
\* C11: the conversation-end hook answers with decision = "block" only when
\* at least one reminder of the run is force-level; a run whose reminders
\* are all suggest-level does not block.
C11_BlockOnlyOnForce ==
    (stop.pc = "exited" /\ stop.stdout # <<>>
        /\ "decision" \in DOMAIN stop.stdout[1])
        => stop.has_force

\* ------------------------------------------------------------ pruning
\* the discussion keys a store file holds
StoredKeys(file) == DOMAIN Get(file.doc, "discussions", EmptyDict)

\* C12: a conversation-end run that is no re-entry and meets no failure
\* removes from the persisted store every key whose directory is gone.
C12_PrunedByNextRun ==
    [][(/\ stop.pc = "idle" /\ stop'.pc = "exited"
        /\ ~stop'.reentry /\ ~stop'.raised
        /\ (stop'.saved => stop'.save_ok))
          => \A k \in StoredKeys(storeFile) :
                 ~fs[k].exists => k \notin StoredKeys(storeFile')]_vars

\* ---------------------------------------------- malformed or missing input
\* the edit-time hook on empty or invalid standard input answers {} and
\* leaves meta.yaml as it was
EditNoOpOnBadInput ==
    (edit.pc = "idle" /\ edit'.pc = "exited" /\ edit'.stdin \in {"empty", "invalid"})
        => /\ edit'.stdout = <<EmptyDict>>
           /\ edit'.exit = 0
           /\ ~edit'.saved
           /\ metaFile' = metaFile

\* the conversation-end hook on empty or invalid standard input answers {}
\* and leaves the store file as it was
StopNoOpOnBadInput ==
    (stop.pc = "idle" /\ stop'.pc = "exited" /\ stop'.stdin \in {"empty", "invalid"})
        => /\ stop'.stdout = <<EmptyDict>>
           /\ stop'.exit = 0
           /\ ~stop'.saved
           /\ storeFile' = storeFile

\* C13: when standard input is empty or is no valid JSON, each hook answers
\* {} , emits no reminder and changes no persisted state.
C13_MalformedInputNoOp ==
    [][EditNoOpOnBadInput /\ StopNoOpOnBadInput]_vars

\* ------------------------------------------------ loading the store
\* One stored discussion state, for the documents below
LoadKey == "2026-01-28/topic"
LoadStored ==
    [outline |-> [mtime |-> 1, change_count |-> 2],
     decisions |-> <<[name |-> 1, mtime |-> 1]>>,
     notes |-> <<>>]

\* the parts a hand-edited store document may or may not hold
LoadVersions == {1, 2}
LoadConfigs ==
    {EmptyDict, [stale_threshold |-> 1], [stale_threshold |-> 5],
     [stale_threshold |-> 5, note |-> 1]}
LoadDiscussions == {EmptyDict, (LoadKey :> LoadStored)}

Part(name, values, present) ==
    IF present THEN {(name :> v) : v \in values} ELSE {EmptyDict}

LoadDocs ==
    UNION {{v @@ c @@ d : v \in Part("version", LoadVersions, pv),
                          c \in Part("config", LoadConfigs, pc),
                          d \in Part("discussions", LoadDiscussions, pd)} :
              pv \in BOOLEAN, pc \in BOOLEAN, pd \in BOOLEAN}

LoadFiles == {AbsentFile, UnparsableFile} \cup {YamlFile(doc) : doc \in LoadDocs}

\* a workspace with one active discussion and any of the store files
InitLoad ==
    /\ ComparatorAtRest
    /\ EditAtRest
    /\ discussRoot = TRUE
    /\ \E t \in 1..MaxTime :
          fs = [k \in Keys |->
                  [NoDir(HookDecisionNames, HookNoteNames)
                      EXCEPT !.exists = TRUE, !.recent = TRUE, !.outline = t]]
    /\ storeFile \in LoadFiles
    /\ stop = IdleStop
    /\ scenario = NoScenario

\* load_snapshot called on the store file
CallLoadSnapshot ==
    /\ call.op = "none"
    /\ call' = [op |-> "load_snapshot", file |-> storeFile,
                ret |-> load_snapshot(storeFile)]
    /\ UNCHANGED <<cmpVars, hookVars, editVars, procs>>

\* main run on the store file, next to main run with no store file
CallMainOnStore(stdin, order, scan) ==
    /\ call.op = "none"
    /\ call' = [op |-> "main", file |-> storeFile,
                ret |-> main(stdin, "none", "none", order, scan,
                             discussRoot, fs, storeFile),
                first |-> main(stdin, "none", "none", order, scan,
                               discussRoot, fs, AbsentFile)]
    /\ UNCHANGED <<cmpVars, hookVars, editVars, procs>>

NextLoad ==
    \/ CallLoadSnapshot
    \/ \E stdin \in StopInputs :
          \E order \in Orders(find_active_discussions(discussRoot, fs)),
             scan \in ScanChoices(find_active_discussions(discussRoot, fs)) :
                 CallMainOnStore(stdin, order, scan)

SpecLoad == InitLoad /\ [][NextLoad]_vars

\* what a run did, the store file apart
RunOutcome(r) ==
    [stdout |-> r.stdout, exit |-> r.exit, raised |-> r.raised,
     saved |-> r.saved, counts |-> r.counts, threshold |-> r.threshold,
     has_force |-> r.has_force, cleaned |-> r.cleaned]

\* C14: load_snapshot returns the default structure (version 1,
\* stale_threshold 3, no discussions) for an absent or unparsable store
\* file, and the run is then the run of a workspace without store file; for
\* a file that parses, every value it holds is kept and exactly the missing
\* ones of version, config, discussions and stale_threshold are filled with
\* their defaults.
C14_LoadDefaultsAndKeeps ==
    /\ call.op = "load_snapshot" =>
          /\ call.file.kind \in {"absent", "unparsable"} =>
                call.ret = [version |-> 1, config |-> [stale_threshold |-> 3],
                            discussions |-> EmptyDict]
          /\ call.file.kind = "yaml" =>
                /\ DOMAIN call.ret =
                       DOMAIN call.file.doc \cup {"version", "config", "discussions"}
                /\ \A k \in DOMAIN call.file.doc \ {"config"} :
                       call.ret[k] = call.file.doc[k]
                /\ "version" \notin DOMAIN call.file.doc => call.ret["version"] = 1
                /\ "discussions" \notin DOMAIN call.file.doc =>
                       call.ret["discussions"] = EmptyDict
                /\ DOMAIN call.ret["config"] =
                       DOMAIN Get(call.file.doc, "config", EmptyDict)
                           \cup {"stale_threshold"}
                /\ \A k \in DOMAIN Get(call.file.doc, "config", EmptyDict) :
                       call.ret["config"][k] = call.file.doc["config"][k]
                /\ "stale_threshold" \notin DOMAIN Get(call.file.doc, "config", EmptyDict)
                       => call.ret["config"]["stale_threshold"] = 3
    /\ (call.op = "main" /\ call.file.kind \in {"absent", "unparsable"}) =>
          /\ RunOutcome(call.ret) = RunOutcome(call.first)
          /\ call.ret.saved => call.ret.store = call.first.store

\* a file that holds a threshold and a discussion but no version
C14_Witness ==
    /\ call.op = "load_snapshot"
    /\ call.file.kind = "yaml"
    /\ "version" \notin DOMAIN call.file.doc
    /\ "config" \in DOMAIN call.file.doc
    /\ "stale_threshold" \in DOMAIN call.file.doc["config"]
    /\ call.file.doc["config"]["stale_threshold"] = 5
    /\ LoadKey \in StoredKeys(call.file)
    /\ call.ret["config"]["stale_threshold"] = 5
    /\ call.ret["discussions"] = call.file.doc["discussions"]
    /\ call.ret["version"] = 1

\* --------------------------------------------- the store as YAML text
\* A Python scalar: its type and its text (repr for numbers).  A float is
\* written here with fraction .0; an int and a float are equal in Python
\* when their values are.
RoundMaxNum == 5

PyInt(n) == [t |-> "int", v |-> ToString(n)]
PyFloat(n) == [t |-> "float", v |-> ToString(n) \o ".0"]
PyStr(s) == [t |-> "str", v |-> s]

IntTexts == {ToString(n) : n \in 0..RoundMaxNum}
FloatTexts == {ToString(n) \o ".0" : n \in 0..RoundMaxNum}
NullTexts == {"null", "~", ""}
BoolTexts == {"true", "false", "yes", "no", "on", "off"}
TimestampTexts == {"2026-01-28"}

\* the implicit tag the YAML resolver gives a plain scalar
resolve(text) ==
    IF text \in IntTexts THEN "int"
    ELSE IF text \in FloatTexts THEN "float"
    ELSE IF text \in NullTexts THEN "null"
    ELSE IF text \in BoolTexts THEN "bool"
    ELSE IF text \in TimestampTexts THEN "timestamp"
    ELSE "str"

\* every string is written plain
represent_plain(py) == [style |-> "plain", text |-> py.v]

\* yaml.safe_dump of a scalar: a string that would resolve to another tag
\* is quoted, numbers are written by their repr
represent(py) ==
    IF py.t = "str" /\ resolve(py.v) # "str"
    THEN [style |-> "quoted", text |-> py.v]
    ELSE [style |-> "plain", text |-> py.v]

\* yaml.safe_load of a scalar
construct(token) ==
    IF token.style = "quoted" THEN PyStr(token.text)
    ELSE [t |-> resolve(token.text), v |-> token.text]

\* Python's == on scalars
NumValue(py) ==
    IF py.t = "int" THEN CHOOSE n \in 0..RoundMaxNum : ToString(n) = py.v
    ELSE CHOOSE n \in 0..RoundMaxNum : ToString(n) \o ".0" = py.v

PyEq(a, b) ==
    IF a.t \in {"int", "float"} /\ b.t \in {"int", "float"}
    THEN NumValue(a) = NumValue(b)
    ELSE a.t = b.t /\ a.v = b.v

\* the names of decision and note files, and names a hand-edited store
\* can hold
NameText(n) == IF n = 1 THEN "D01-test.md" ELSE IF n = 2 THEN "3" ELSE "null"

\* the Python object save_snapshot is given: a dict is the set of its
\* (key, value) pairs
py_files(file_list) ==
    [i \in 1..Len(file_list) |->
        [name |-> PyStr(NameText(file_list[i].name)),
         mtime |-> PyFloat(file_list[i].mtime)]]

py_state(state) ==
    [outline |-> [mtime |-> PyFloat(state.outline.mtime),
                  change_count |-> PyInt(state.outline.change_count)],
     decisions |-> py_files(state.decisions),
     notes |-> py_files(state.notes)]

py_snapshot(snapshot) ==
    [version |-> PyInt(snapshot.version),
     config |-> [stale_threshold |-> PyInt(snapshot.config.stale_threshold)],
     discussions |-> {<<PyStr(k), py_state(snapshot.discussions[k])>> :
                         k \in DOMAIN snapshot.discussions}]

\* yaml.safe_dump and yaml.safe_load on the schema of the store; sort_keys
\* is False and the keys of the schema are plain words
dump_files(files) ==
    [i \in 1..Len(files) |->
        [name |-> represent(files[i].name), mtime |-> represent(files[i].mtime)]]

dump_state(state) ==
    [outline |-> [mtime |-> represent(state.outline.mtime),
                  change_count |-> represent(state.outline.change_count)],
     decisions |-> dump_files(state.decisions),
     notes |-> dump_files(state.notes)]

yaml_safe_dump(py) ==
    [version |-> represent(py.version),
     config |-> [stale_threshold |-> represent(py.config.stale_threshold)],
     discussions |-> {<<represent(kv[1]), dump_state(kv[2])>> : kv \in py.discussions}]

load_files(files) ==
    [i \in 1..Len(files) |->
        [name |-> construct(files[i].name), mtime |-> construct(files[i].mtime)]]

load_state(state) ==
    [outline |-> [mtime |-> construct(state.outline.mtime),
                  change_count |-> construct(state.outline.change_count)],
     decisions |-> load_files(state.decisions),
     notes |-> load_files(state.notes)]

yaml_safe_load(text) ==
    [version |-> construct(text.version),
     config |-> [stale_threshold |-> construct(text.config.stale_threshold)],
     discussions |-> {<<construct(kv[1]), load_state(kv[2])>> : kv \in text.discussions}]

\* ---- the snapshots saved and reloaded
RoundKeys == {"2026-01-28/topic", "2026-01-29/other"}
RoundNames == {1, 2}
RoundTimes == {0, 1}
RoundCounts == {0, 2}
RoundThresholds == {1, 3}

RoundFileLists(names) ==
    {s \in UNION {[1..n -> [name : names, mtime : {1}]] : n \in 0..Cardinality(names)} :
        \A i, j \in 1..Len(s) : i # j => s[i].name # s[j].name}

RoundStates ==
    [outline : [mtime : RoundTimes, change_count : RoundCounts],
     decisions : RoundFileLists(RoundNames),
     notes : RoundFileLists({3})]

RoundSnapshots ==
    {[version |-> 1, config |-> [stale_threshold |-> t], discussions |-> d] :
        t \in RoundThresholds,
        d \in UNION {[K -> RoundStates] : K \in SUBSET RoundKeys}}

InitRound ==
    /\ ComparatorAtRest
    /\ discussRoot = TRUE
    /\ fs = [k \in Keys |-> NoDir(HookDecisionNames, HookNoteNames)]
    /\ storeFile = AbsentFile
    /\ stop = IdleStop
    /\ scenario = NoScenario
    /\ metaFile = AbsentFile
    /\ edit = IdleEdit
    /\ procs = <<>>
    /\ call \in {[op |-> "snapshot", snapshot |-> s] : s \in RoundSnapshots}

\* the file save_snapshot writes for the Python object py, and what
\* load_snapshot returns for it
round_trip(py, text) ==
    [op |-> "round_trip", snapshot |-> py, text |-> text,
     ret |-> ensure_structure(yaml_safe_load(text))]

\* save_snapshot(root, snapshot) followed by load_snapshot(root)
SaveThenLoad ==
    /\ call.op = "snapshot"
    /\ call' = round_trip(py_snapshot(call.snapshot),
                          yaml_safe_dump(py_snapshot(call.snapshot)))
    /\ storeFile' = save_snapshot(storeFile, call.snapshot, "none")
    /\ UNCHANGED <<cmpVars, discussRoot, fs, stop, scenario, editVars, procs>>

NextRound == SaveThenLoad

SpecRound == InitRound /\ [][NextRound]_vars

\* Python's == on file lists and on discussion states
FilesEq(a, b) ==
    /\ Len(a) = Len(b)
    /\ \A i \in 1..Len(a) : PyEq(a[i].name, b[i].name) /\ PyEq(a[i].mtime, b[i].mtime)

StateEq(a, b) ==
    /\ PyEq(a.outline.mtime, b.outline.mtime)
    /\ PyEq(a.outline.change_count, b.outline.change_count)
    /\ FilesEq(a.decisions, b.decisions)
    /\ FilesEq(a.notes, b.notes)

\* C15: save_snapshot followed by load_snapshot gives a snapshot with the
\* same stale_threshold, the same discussion keys and for each key the same
\* outline mtime, change_count and decisions and notes entries.
C15_RoundTrip ==
    call.op = "round_trip" =>
        /\ PyEq(call.ret.config.stale_threshold, call.snapshot.config.stale_threshold)
        /\ \A kv \in call.snapshot.discussions :
              \E lv \in call.ret.discussions :
                  PyEq(lv[1], kv[1]) /\ StateEq(lv[2], kv[2])
        /\ \A lv \in call.ret.discussions :
              \E kv \in call.snapshot.discussions : PyEq(lv[1], kv[1])
        /\ Cardinality(call.ret.discussions) = Cardinality(call.snapshot.discussions)

\* two discussions, one holding a file name that reads as a number
C15_Witness ==
    /\ call.op = "round_trip"
    /\ Cardinality(call.ret.discussions) = 2
    /\ \E kv \in call.snapshot.discussions :
          /\ Len(kv[2].decisions) = 2
          /\ \E i \in 1..2 : kv[2].decisions[i].name = PyStr("3")
          /\ \E lv \in call.text.discussions :
                \E i \in 1..Len(lv[2].decisions) :
                    lv[2].decisions[i].name = [style |-> "quoted", text |-> "3"]

\* ------------------------------ conversation-end hooks side by side
\* Two conversations of one workspace end at about the same time: each
\* process runs main as the steps load_snapshot, scan and compare,
\* open(path, "w") (the file is truncated), write and close, respond.
Pids == {1, 2}
RaceMaxTime == 3
RaceThresholds == {1, 3}
RaceCounts == {0, 1}
RaceStdin == DictStdin([status |-> "completed"])

NewProc ==
    [pc |-> "start", observed |-> AbsentFile, snapshot |-> EmptyDict,
     threshold |-> 0, stale_reminders |-> <<>>, counts |-> EmptyDict,
     saved |-> FALSE, stdout |-> <<>>]

\* the store before the two runs: one discussion, outline seen at mtime 1
RaceStores ==
    {YamlFile([version |-> 1, config |-> [stale_threshold |-> t],
               discussions |->
                   (k :> [outline |-> [mtime |-> 1, change_count |-> c],
                          decisions |-> <<>>, notes |-> <<>>])]) :
        t \in RaceThresholds, c \in RaceCounts, k \in Keys}

\* procs.run: the processes; procs.pre: the store file before the runs;
\* procs.saves: who completed a save, in order; procs.early: a save began
\* before both had loaded; procs.overlap: a save began during another save
InitRace ==
    /\ ComparatorAtRest
    /\ discussRoot = TRUE
    /\ fs = [k \in Keys |->
               [NoDir(HookDecisionNames, HookNoteNames)
                   EXCEPT !.exists = TRUE, !.recent = TRUE, !.outline = 2]]
    /\ storeFile \in RaceStores
    /\ stop = IdleStop
    /\ scenario = NoScenario
    /\ metaFile = AbsentFile
    /\ edit = IdleEdit
    /\ call = NoCall
    /\ procs = [run |-> [p \in Pids |-> NewProc], pre |-> storeFile,
                saves |-> <<>>, early |-> FALSE, overlap |-> FALSE]

RaceFrame == UNCHANGED <<cmpVars, discussRoot, stop, scenario, editVars, call>>

\* the outline is modified once more
RaceWriteOutline(k) ==
    /\ fs[k].outline < RaceMaxTime
    /\ fs' = [fs EXCEPT ![k].outline = @ + 1]
    /\ UNCHANGED <<storeFile, procs>>
    /\ RaceFrame

\* a decision document is written
RaceWriteDecision(k, n) ==
    /\ fs[k].decisions[n] = 0
    /\ fs' = [fs EXCEPT ![k].decisions[n] = 1]
    /\ UNCHANGED <<storeFile, procs>>
    /\ RaceFrame

\* snapshot = load_snapshot(discuss_root) and the threshold read from it
ProcLoad(p) ==
    /\ procs.run[p].pc = "start"
    /\ procs' = [procs EXCEPT
                   !.run[p].pc = "loaded",
                   !.run[p].observed = storeFile,
                   !.run[p].snapshot = load_snapshot(storeFile),
                   !.run[p].threshold =
                       Get(Get(load_snapshot(storeFile), "config", EmptyDict),
                           "stale_threshold", 3)]
    /\ UNCHANGED <<fs, storeFile>>
    /\ RaceFrame

\* the process after the loop and the clean-up
ProcChecked(p, loop, cleanup) ==
    procs' = [procs EXCEPT
                !.run[p].pc = "computed",
                !.run[p].snapshot = cleanup.snapshot,
                !.run[p].stale_reminders = loop.stale_reminders,
                !.run[p].counts = loop.counts]

ProcLoop(p, loop) ==
    ProcChecked(p, loop, cleanup_deleted_discussions(loop.snapshot, fs))

\* find_active_discussions, the loop over them, cleanup_deleted_discussions
ProcCheck(p) ==
    /\ procs.run[p].pc = "loaded"
    /\ IF find_active_discussions(discussRoot, fs) = {}
       THEN procs' = [procs EXCEPT !.run[p].pc = "done",
                                   !.run[p].stdout = <<format_output_allow>>]
       ELSE \E order \in Orders(find_active_discussions(discussRoot, fs)),
               scan \in ScanChoices(find_active_discussions(discussRoot, fs)) :
                ProcLoop(p, check_discussions(order, scan,
                                [snapshot |-> procs.run[p].snapshot,
                                 stale_reminders |-> <<>>, counts |-> EmptyDict],
                                procs.run[p].threshold))
    /\ UNCHANGED <<fs, storeFile>>
    /\ RaceFrame

\* save_snapshot: open(snapshot_path, "w") truncates the file
ProcOpen(p) ==
    /\ procs.run[p].pc = "computed"
    /\ storeFile' = save_snapshot(storeFile, procs.run[p].snapshot, "write_empty")
    /\ procs' = [procs EXCEPT
                   !.run[p].pc = "writing",
                   !.early = @ \/ \E q \in Pids : procs.run[q].pc = "start",
                   !.overlap = @ \/ \E q \in Pids \ {p} : procs.run[q].pc = "writing"]
    /\ UNCHANGED fs
    /\ RaceFrame

\* the lines of the block-style text yaml.safe_dump writes for a
\* discussion: its key, outline with two fields, decisions, notes, and two
\* lines for every file entry
state_lines(state) ==
    6 + 2 * Len(Get(state, "decisions", <<>>)) + 2 * Len(Get(state, "notes", <<>>))

RECURSIVE discussions_lines(_, _)
discussions_lines(discussions, keys) ==
    IF keys = {} THEN 0
    ELSE LET k == CHOOSE x \in keys : TRUE
         IN  state_lines(discussions[k]) + discussions_lines(discussions, keys \ {k})

\* the length of the text of a snapshot, in lines; an empty file has none
dump_lines(snapshot) ==
    IF snapshot = EmptyDict THEN 0
    ELSE 4 + discussions_lines(Get(snapshot, "discussions", EmptyDict),
                               DOMAIN Get(snapshot, "discussions", EmptyDict))

\* what the file holds after the text of snapshot was written from offset
\* 0 and the file closed: over a longer text another process has written
\* since the truncation, the tail of that text stays behind the new one
\* and the file is the dump of no snapshot
written_over(file, snapshot) ==
    IF file.kind = "yaml" /\ dump_lines(file.doc) <= dump_lines(snapshot)
    THEN YamlFile(snapshot)
    ELSE UnparsableFile

\* save_snapshot: yaml.safe_dump and close
ProcWrite(p) ==
    /\ procs.run[p].pc = "writing"
    /\ storeFile' = written_over(storeFile, procs.run[p].snapshot)
    /\ procs' = [procs EXCEPT !.run[p].pc = "saved", !.run[p].saved = TRUE,
                              !.saves = Append(@, p)]
    /\ UNCHANGED fs
    /\ RaceFrame

\* block_and_exit or allow_and_exit
ProcExit(p) ==
    /\ procs.run[p].pc = "saved"
    /\ procs' = [procs EXCEPT
                   !.run[p].pc = "done",
                   !.run[p].stdout = respond(procs.run[p].stale_reminders,
                                             detect_platform(RaceStdin.d))]
    /\ UNCHANGED <<fs, storeFile>>
    /\ RaceFrame

NextRace ==
    \/ \E k \in Keys : RaceWriteOutline(k)
    \/ \E k \in Keys, n \in HookDecisionNames : RaceWriteDecision(k, n)
    \/ \E p \in Pids : ProcLoad(p)
    \/ \E p \in Pids : ProcCheck(p)
    \/ \E p \in Pids : ProcOpen(p)
    \/ \E p \in Pids : ProcWrite(p)
    \/ \E p \in Pids : ProcExit(p)

SpecRace == InitRace /\ [][NextRace]_vars

\* C16: a run that loads the store while another run is in save_snapshot
\* finds the complete previous snapshot or the complete new one, never an
\* empty or cut-off file.
C16_AtomicSave ==
    \A p \in Pids :
        procs.run[p].pc # "start" =>
            /\ procs.run[p].observed.kind = "yaml"
            /\ procs.run[p].observed.doc # EmptyDict


\* the change_count stored for a discussion in a store file (0 if none)
RaceCount(file, k) ==
    Get(Get(Get(Get(file.doc, "discussions", EmptyDict), k, EmptyDict),
            "outline", EmptyDict), "change_count", 0)

\* both runs loaded before either began to save, and both have saved
RaceOver ==
    /\ ~procs.early
    /\ \A p \in Pids : procs.run[p].saved /\ procs.run[p].pc \in {"saved", "done"}

\* the store is the whole snapshot of the run that saved last, and no
\* change_count is more than 1 above its value before the runs
LastWriterWins ==
    /\ storeFile = YamlFile(procs.run[procs.saves[Len(procs.saves)]].snapshot)
    /\ \A k \in Keys : RaceCount(storeFile, k) <= RaceCount(procs.pre, k) + 1

\* C17: when two runs both load the store before either saves, then after
\* both have saved the store is exactly the snapshot of the run that saved
\* last and every change_count has advanced by at most 1.
C17_LastWriterWins == RaceOver => LastWriterWins

\* the same when the second save begins only after the first has ended
RaceSavesApart == (RaceOver /\ ~procs.overlap) => LastWriterWins


\* ------------------------------------------------ get_workspace_root
RootPaths == {"/work/a", "/work/b"}
Unset == "<unset>"
RootEnvVars == <<"WORKSPACE_ROOT", "PROJECT_ROOT", "PWD">>
EnvNames ==
    {"WORKSPACE_ROOT", "PROJECT_ROOT", "PWD",
     "CURSOR_PROJECT_DIR", "CLAUDE_PROJECT_DIR"}

\* os.environ: every variable is unset or holds a path
Environs == [EnvNames -> RootPaths \cup {Unset}]

\* the payloads of the conversation end: with or without an array of roots
RootPayloads ==
    {[status |-> "completed"]}
        \cup {[status |-> "completed", workspace_roots |-> <<p>>] : p \in RootPaths}
        \cup {[status |-> "completed", workspaceRoots |-> <<p>>] : p \in RootPaths}
        \cup {[status |-> "completed", workspace_roots |-> <<p, q>>] :
                p \in RootPaths, q \in RootPaths}

RECURSIVE first_set(_, _, _)
\* for env_var in [...]: if env_var in os.environ: return Path(os.environ[env_var])
first_set(environ, names, fallback) ==
    IF names = <<>> THEN fallback
    ELSE IF environ[Head(names)] # Unset THEN environ[Head(names)]
    ELSE first_set(environ, Tail(names), fallback)

\* get_workspace_root() takes no argument: the payload is not consulted
get_workspace_root(environ, cwd) == first_set(environ, RootEnvVars, cwd)

InitRoot ==
    /\ ComparatorAtRest
    /\ discussRoot = FALSE
    /\ fs = [k \in Keys |-> NoDir(HookDecisionNames, HookNoteNames)]
    /\ storeFile = AbsentFile
    /\ stop = IdleStop
    /\ scenario = NoScenario
    /\ metaFile = AbsentFile
    /\ edit = IdleEdit
    /\ procs = <<>>
    /\ call \in {[op |-> "root", input_data |-> d, environ |-> e, cwd |-> c] :
                    d \in RootPayloads, e \in Environs, c \in RootPaths}

\* main: input_data = read_stdin_json(); workspace_root = get_workspace_root()
CallGetWorkspaceRoot ==
    /\ call.op = "root"
    /\ call' = [op |-> "root_done", input_data |-> call.input_data,
                environ |-> call.environ, cwd |-> call.cwd,
                workspace_root |-> get_workspace_root(call.environ, call.cwd)]
    /\ UNCHANGED <<cmpVars, hookVars, editVars, procs>>

NextRoot == CallGetWorkspaceRoot

SpecRoot == InitRoot /\ [][NextRoot]_vars

\* the root the payload names: the first element of either array
PayloadRoot(d) ==
    IF "workspace_roots" \in DOMAIN d THEN d.workspace_roots[1]
    ELSE IF "workspaceRoots" \in DOMAIN d THEN d.workspaceRoots[1]
    ELSE Unset

\* the project directory a tool puts in the environment
ToolRoot(e) ==
    IF e["CURSOR_PROJECT_DIR"] # Unset THEN e["CURSOR_PROJECT_DIR"]
    ELSE e["CLAUDE_PROJECT_DIR"]

PriorityRoot(d, e, c) ==
    IF PayloadRoot(d) # Unset THEN PayloadRoot(d)
    ELSE IF ToolRoot(e) # Unset THEN ToolRoot(e)
    ELSE c

\* C18: the workspace root is the first root of the payload if it has
\* one, else the tool's project directory from the environment if set,
\* else the current working directory.
C18_RootPriority ==
    call.op = "root_done" =>
        call.workspace_root = PriorityRoot(call.input_data, call.environ, call.cwd)


\* ------------------------------------------------ the response by platform
RespondKeys == {"2026-01-28/topic", "2026-01-29/other"}
RespondCounts == {3, 6}
RespondPayloads ==
    {EmptyStdin,
     DictStdin([hook_event_name |-> "Stop"]),
     DictStdin([tool_name |-> "Write"]),
     DictStdin([status |-> "completed"]),
     DictStdin([file_path |-> "/work/a/outline.md"]),
     DictStdin([status |-> "aborted"]),
     DictStdin([session |-> 1])}

\* the (reminder, is_force) pairs the loop of main can append
ReminderPairs ==
    {[reminder |-> format_stale_reminder(k, c, DEFAULT_STALE_THRESHOLD,
                       c >= force_threshold(DEFAULT_STALE_THRESHOLD)),
      is_force |-> c >= force_threshold(DEFAULT_STALE_THRESHOLD)] :
        k \in RespondKeys, c \in RespondCounts}

ReminderLists ==
    {<<>>} \cup {<<a>> : a \in ReminderPairs}
           \cup {<<a, b>> : a \in ReminderPairs, b \in ReminderPairs}

InitRespond ==
    /\ ComparatorAtRest
    /\ discussRoot = FALSE
    /\ fs = [k \in Keys |-> NoDir(HookDecisionNames, HookNoteNames)]
    /\ storeFile = AbsentFile
    /\ stop = IdleStop
    /\ scenario = NoScenario
    /\ metaFile = AbsentFile
    /\ edit = IdleEdit
    /\ procs = <<>>
    /\ call \in {[op |-> "respond", stdin |-> i, stale_reminders |-> l] :
                    i \in RespondPayloads, l \in ReminderLists}

\* the end of main: the platform detected from the input, the reminders
\* combined and written by block_and_exit, or allow_and_exit
CallRespond ==
    /\ call.op = "respond"
    /\ call' = [op |-> "responded", stdin |-> call.stdin,
                stale_reminders |-> call.stale_reminders,
                platform |-> platform_of(read_stdin_json(call.stdin)),
                stdout |-> respond(call.stale_reminders,
                                   platform_of(read_stdin_json(call.stdin)))]
    /\ UNCHANGED <<cmpVars, hookVars, editVars, procs>>

NextRespond == CallRespond

SpecRespond == InitRespond /\ [][NextRespond]_vars

\* the reminder texts with the separator between every two of them
RECURSIVE Joined(_)
Joined(l) ==
    IF l = <<>> THEN <<>>
    ELSE IF Len(l) = 1 THEN <<l[1].reminder>>
    ELSE <<l[1].reminder, Separator>> \o Joined(Tail(l))

\* the platform a host's payload shows
HostOf(stdin) ==
    IF stdin.kind # "dict" THEN "unknown"
    ELSE IF "hook_event_name" \in DOMAIN stdin.d \/ "tool_name" \in DOMAIN stdin.d
    THEN "claude_code"
    ELSE IF "file_path" \in DOMAIN stdin.d
            \/ ("status" \in DOMAIN stdin.d /\ stdin.d["status"] = "completed")
    THEN "cursor"
    ELSE "unknown"

MultiKeys == {"2026-01-28/topic", "2026-01-29/other"}
MultiMaxCount == 3
MultiThresholds == {1, 2}
MultiInputs ==
    {DictStdin([status |-> "completed"]),
     DictStdin([hook_event_name |-> "Stop", stop_hook_active |-> FALSE])}

\* two discussions, both just created with an outline; the store holds a
\* threshold and no discussion yet
InitMulti ==
    /\ ComparatorAtRest
    /\ EditAtRest
    /\ discussRoot = TRUE
    /\ fs = [k \in MultiKeys |->
               [NoDir(HookDecisionNames, HookNoteNames)
                   EXCEPT !.exists = TRUE, !.recent = TRUE, !.outline = 1]]
    /\ storeFile \in {YamlFile([config |-> [stale_threshold |-> t]]) :
                         t \in MultiThresholds}
    /\ stop = IdleStop
    /\ scenario = NoScenario

NextMulti ==
    \/ \E k \in MultiKeys, t \in 1..MaxTime : WriteOutline(k, t) /\ UNCHANGED scenario
    \/ \E k \in MultiKeys : Age(k) /\ UNCHANGED scenario
    \/ \E stdin \in MultiInputs :
          StopHook(stdin, "none", "none", MultiMaxCount) /\ UNCHANGED scenario
    \/ HostCollects /\ UNCHANGED scenario

SpecMulti == InitMulti /\ [][NextMulti]_vars

\* the discussions the run has compared, with a count at or above the threshold
StaleKeys == {k \in DOMAIN stop.counts : stop.counts[k] >= stop.threshold}

\* C20: the combined reminder of a run holds exactly one reminder for every
\* discussion the run processed whose change_count after the comparison is
\* at or above the threshold and none for any other discussion, with the
\* separator between every two reminders, and the run is classed force
\* exactly when one of these reminders is force-level.
C20_OneReminderEach ==
    (stop.pc = "exited" /\ ~stop.raised /\ ~stop.reentry) =>
        /\ \A k \in MultiKeys :
              Cardinality(RemindersFor(k)) = IF k \in StaleKeys THEN 1 ELSE 0
        /\ Len(StopMessage) =
              IF StaleKeys = {} THEN 0 ELSE 2 * Cardinality(StaleKeys) - 1
        /\ \A i \in 1..Len(StopMessage) :
              (StopMessage[i] = Separator) <=> (i % 2 = 0)
        /\ stop.has_force <=> \E k \in MultiKeys : ReminderLevel(k) = "force"

\* one run reminds of both discussions, one at force level and one not
C20_Witness ==
    /\ stop.pc = "exited"
    /\ StaleKeys = MultiKeys
    /\ Len(StopMessage) = 3
    /\ stop.has_force
    /\ \E k \in MultiKeys : ReminderLevel(k) = "suggest"


\* ---------------------------------------------------- session_manager.py
SessPlatforms == {"claude-code", "cursor"}
SessIds == {"s1"}
SessPaths == {".discuss/2026-01-28/topic/outline.md",
              ".discuss/2026-01-29/other/outline.md"}
\* hours on the clock, and the age beyond which a session is cleaned up
SessMaxNow == 2
SessMaxAge == 1

\* a session file is named by platform and session id
SessionRefs == [platform : SessPlatforms, id : SessIds]

\* no file at the session path; load_session returns None
NoSession == [kind |-> "none"]

\* load_session: the parsed file, None when the path does not exist
load_session(files, ref) == files[ref]

\* save_session: json.dump into the file, False when mkdir or open raises
save_session(files, ref, data, fault) ==
    IF fault THEN [files |-> files, ret |-> FALSE]
    ELSE [files |-> [files EXCEPT ![ref] = data], ret |-> TRUE]

\* delete_session: True if the path does not exist or unlink succeeds
delete_session(files, ref, fault) ==
    IF files[ref] = NoSession THEN [files |-> files, ret |-> TRUE]
    ELSE IF fault THEN [files |-> files, ret |-> FALSE]
    ELSE [files |-> [files EXCEPT ![ref] = NoSession], ret |-> TRUE]

create_session(platform, session_id, now) ==
    [session_id |-> session_id, platform |-> platform, started_at |-> now,
     outline_updated |-> FALSE, outline_paths |-> <<>>]

SeqRange(s) == {s[i] : i \in 1..Len(s)}

add_path_always(outline_paths, outline_path) == Append(outline_paths, outline_path)

\* if outline_path not in outline_paths: outline_paths.append(outline_path)
add_path(outline_paths, outline_path) ==
    IF outline_path \in SeqRange(outline_paths) THEN outline_paths
    ELSE Append(outline_paths, outline_path)

\* the session after the update, and whether this was the first update
marked_session(session, outline_path) ==
    [session |-> [session EXCEPT
                    !.outline_updated = TRUE,
                    !.outline_paths = add_path(@, outline_path)],
     is_first_update |-> ~session.outline_updated]

mark_saved(files, ref, m, fault) ==
    [files |-> save_session(files, ref, m.session, fault).files,
     ret |-> m.is_first_update]

mark_outline_updated(files, ref, outline_path, now, fault) ==
    mark_saved(files, ref,
        marked_session(IF load_session(files, ref) = NoSession
                       THEN create_session(ref.platform, ref.id, now)
                       ELSE load_session(files, ref),
                       outline_path),
        fault)

get_updated_outline_paths(files, ref) ==
    IF load_session(files, ref) = NoSession THEN <<>>
    ELSE load_session(files, ref).outline_paths

is_in_discussion_mode(files, ref) ==
    IF load_session(files, ref) = NoSession THEN FALSE
    ELSE load_session(files, ref).outline_updated

\* the session files of the platform that are older than max_age_hours
old_sessions(files, platform, max_age_hours, now) ==
    {r \in DOMAIN files :
        /\ r.platform = platform
        /\ files[r] # NoSession
        /\ now - files[r].started_at > max_age_hours}

cleanup_old_sessions(files, platform, max_age_hours, now) ==
    [files |-> [r \in DOMAIN files |->
                  IF r \in old_sessions(files, platform, max_age_hours, now)
                  THEN NoSession ELSE files[r]],
     ret |-> Cardinality(old_sessions(files, platform, max_age_hours, now))]

\* get_session_id: the id the payload of a hook carries
get_session_id(hook_input, platform) ==
    IF hook_input = EmptyDict THEN "None"
    ELSE IF platform = "claude-code" /\ "session_id" \in DOMAIN hook_input
    THEN hook_input["session_id"]
    ELSE IF platform = "cursor" /\ "conversation_id" \in DOMAIN hook_input
    THEN hook_input["conversation_id"]
    ELSE IF "session_id" \in DOMAIN hook_input THEN hook_input["session_id"]
    ELSE IF "conversation_id" \in DOMAIN hook_input
    THEN hook_input["conversation_id"]
    ELSE IF "chat_id" \in DOMAIN hook_input THEN hook_input["chat_id"]
    ELSE IF "id" \in DOMAIN hook_input THEN hook_input["id"]
    ELSE "fallback-now"

\* ---- the session files over time.  call.files: the files; call.now: the
\* clock; call.last: the last call and what it returned; call.marked: a
\* mark_outline_updated call has written the session and no delete_session
\* call has removed it since; call.inmode: the same, with no
\* cleanup_old_sessions call having removed it either; call.paths: the
\* paths marked since the session was last removed.
NoLast == [fn |-> "none"]

SessionInputs ==
    {DictStdin([hook_event_name |-> "Stop", session_id |-> i]) : i \in SessIds}

InitSession ==
    /\ ComparatorAtRest
    /\ metaFile = AbsentFile
    /\ edit = IdleEdit
    /\ discussRoot = TRUE
    /\ fs = [k \in Keys |->
               [NoDir(HookDecisionNames, HookNoteNames)
                   EXCEPT !.exists = TRUE, !.recent = TRUE, !.outline = 1]]
    /\ storeFile = AbsentFile
    /\ stop = IdleStop
    /\ scenario = NoScenario
    /\ procs = <<>>
    /\ call = [op |-> "sessions", now |-> 0,
               files |-> [r \in SessionRefs |-> NoSession],
               last |-> NoLast,
               marked |-> [r \in SessionRefs |-> FALSE],
               inmode |-> [r \in SessionRefs |-> FALSE],
               paths |-> [r \in SessionRefs |-> {}]]

SessFrame == UNCHANGED <<cmpVars, hookVars, editVars, procs>>

SessTick ==
    /\ call.now < SessMaxNow
    /\ call' = [call EXCEPT !.now = @ + 1, !.last = NoLast]
    /\ SessFrame

\* create_session and save_session for a conversation that has no file
SessCreate(ref, fault) ==
    /\ call.files[ref] = NoSession
    /\ LET r == save_session(call.files, ref,
                             create_session(ref.platform, ref.id, call.now), fault)
       IN  call' = [call EXCEPT
                      !.files = r.files,
                      !.last = [fn |-> "save", ref |-> ref, ret |-> r.ret,
                                fault |-> fault]]
    /\ SessFrame

SessMarked(ref, outline_path, fault, r) ==
    call' = [call EXCEPT
               !.files = r.files,
               !.last = [fn |-> "mark", ref |-> ref, ret |-> r.ret,
                         fault |-> fault, was_inmode |-> call.inmode[ref]],
               !.marked[ref] = @ \/ ~fault,
               !.inmode[ref] = @ \/ ~fault,
               !.paths[ref] = IF fault THEN @ ELSE @ \cup {outline_path}]

SessMark(ref, outline_path, fault) ==
    /\ SessMarked(ref, outline_path, fault,
                  mark_outline_updated(call.files, ref, outline_path,
                                       call.now, fault))
    /\ SessFrame

SessDeleted(ref, fault, r) ==
    call' = [call EXCEPT
               !.files = r.files,
               !.last = [fn |-> "delete", ref |-> ref, ret |-> r.ret,
                         fault |-> fault, existed |-> call.files[ref] # NoSession],
               !.marked[ref] = @ /\ r.files[ref] # NoSession,
               !.inmode[ref] = @ /\ r.files[ref] # NoSession,
               !.paths[ref] = IF r.files[ref] = NoSession THEN {} ELSE @]

SessDelete(ref, fault) ==
    /\ SessDeleted(ref, fault, delete_session(call.files, ref, fault))
    /\ SessFrame

SessCleaned(platform, r) ==
    call' = [call EXCEPT
               !.files = r.files,
               !.last = [fn |-> "cleanup", platform |-> platform, ret |-> r.ret],
               !.inmode = [x \in SessionRefs |->
                             call.inmode[x] /\ r.files[x] # NoSession],
               !.paths = [x \in SessionRefs |->
                            IF r.files[x] = NoSession THEN {} ELSE call.paths[x]]]

SessCleanup(platform) ==
    /\ SessCleaned(platform,
                   cleanup_old_sessions(call.files, platform, SessMaxAge, call.now))
    /\ SessFrame

\* the conversation ends: the stop hook runs and the host reads its response
SessStopHook(stdin) ==
    /\ StopHook(stdin, "none", "none", HookMaxCount)
    /\ UNCHANGED scenario

NextSession ==
    \/ SessTick
    \/ \E ref \in SessionRefs, fault \in BOOLEAN : SessCreate(ref, fault)
    \/ \E ref \in SessionRefs, p \in SessPaths, fault \in BOOLEAN :
          SessMark(ref, p, fault)
    \/ \E ref \in SessionRefs, fault \in BOOLEAN : SessDelete(ref, fault)
    \/ \E platform \in SessPlatforms : SessCleanup(platform)
    \/ \E stdin \in SessionInputs : SessStopHook(stdin)
    \/ HostCollects /\ UNCHANGED scenario

SpecSession == InitSession /\ [][NextSession]_vars


\* what holds of the calls however a session came to be removed: the first
\* mark is told apart, the paths are kept once each, delete_session succeeds
SessionCalls ==
    /\ call.last.fn = "mark" => (call.last.ret <=> ~call.last.was_inmode)
    /\ \A ref \in SessionRefs :
          call.inmode[ref] =>
              /\ SeqRange(get_updated_outline_paths(call.files, ref)) = call.paths[ref]
              /\ Len(get_updated_outline_paths(call.files, ref))
                   = Cardinality(call.paths[ref])
    /\ (call.last.fn = "delete" /\ ~call.last.fault) =>
          /\ call.last.ret
          /\ call.files[call.last.ref] = NoSession

ConversationRef(stdin) ==
    [platform |-> "claude-code", id |-> get_session_id(stdin.d, "claude-code")]

\* C22: when the stop hook has completed for a conversation, no session
\* file of that conversation remains.
C22_SessionGoneAfterStop ==
    [][\A stdin \in SessionInputs :
          (stop.pc = "idle" /\ stop'.pc = "exited")
              => call'.files[ConversationRef(stdin)] = NoSession]_vars


\* ------------------------------------------------------------- install.py
InstallPlatforms == {"claude", "cursor"}
OtherCommand == "echo done"
\* f"python3 {install_dir}/stop/check_precipitation.py"
check_precip_cmd(platform) ==
    IF platform = "claude"
    THEN "python3 ~/.claude/hooks/discuss/stop/check_precipitation.py"
    ELSE "python3 ~/.cursor/hooks/discuss/stop/check_precipitation.py"

\* "discuss" in command
mentions_discuss(command) ==
    command \in {check_precip_cmd(p) : p \in InstallPlatforms}

\* the key of the stop hooks in the tool's config
stop_key(platform) == IF platform = "claude" THEN "Stop" ELSE "stop"

\* an entry of the list that is no JSON object
NonDictEntry == [isdict |-> FALSE]
\* Claude Code: {"matcher": "", "hooks": [{"type": "command", "command": c}, ...]}
ClaudeEntry(commands) == [isdict |-> TRUE, d |-> [matcher |-> "", hooks |-> commands]]
\* an object without the key "hooks" (Claude Code) or "command" (Cursor)
BareEntry == [isdict |-> TRUE, d |-> [matcher |-> ""]]
\* Cursor: {"command": c}
CursorEntry(command) == [isdict |-> TRUE, d |-> [command |-> command]]

new_entry(platform) ==
    IF platform = "claude" THEN ClaudeEntry(<<check_precip_cmd(platform)>>)
    ELSE CursorEntry(check_precip_cmd(platform))

\* h.get("hooks", [{}])[0].get("command", "") for Claude Code,
\* h.get("command", "") for Cursor; h is a dict
entry_command(h, platform) ==
    IF platform = "claude"
    THEN IF "hooks" \notin DOMAIN h.d THEN Returns("")
         ELSE IF h.d["hooks"] = <<>> THEN Raises
         ELSE Returns(h.d["hooks"][1])
    ELSE Returns(Get(h.d, "command", ""))

RECURSIVE stop_hook_exists(_, _)
\* any("discuss" in ... for h in entries if isinstance(h, dict))
stop_hook_exists(entries, platform) ==
    IF entries = <<>> THEN Returns(FALSE)
    ELSE IF ~Head(entries).isdict THEN stop_hook_exists(Tail(entries), platform)
    ELSE IF entry_command(Head(entries), platform).raised THEN Raises
    ELSE IF mentions_discuss(entry_command(Head(entries), platform).value)
    THEN Returns(TRUE)
    ELSE stop_hook_exists(Tail(entries), platform)

RECURSIVE without_discuss(_, _)
\* [h for h in entries if "discuss" not in ...]: h.get raises on an entry
\* that is no dict
without_discuss(entries, platform) ==
    IF entries = <<>> THEN Returns(<<>>)
    ELSE IF ~Head(entries).isdict THEN Raises
    ELSE IF entry_command(Head(entries), platform).raised THEN Raises
    ELSE IF without_discuss(Tail(entries), platform).raised THEN Raises
    ELSE IF mentions_discuss(entry_command(Head(entries), platform).value)
    THEN without_discuss(Tail(entries), platform)
    ELSE Returns(<<Head(entries)>> \o without_discuss(Tail(entries), platform).value)

\* no config file
NoConfig == [exists |-> FALSE, d |-> EmptyDict]
ConfigFile(d) == [exists |-> TRUE, d |-> d]

\* settings = json.load(f) if the file exists, else {} (Claude Code) or
\* {"version": 1, "hooks": {}} (Cursor)
loaded_config(file, platform) ==
    IF file.exists THEN file.d
    ELSE IF platform = "claude" THEN EmptyDict
    ELSE [version |-> 1, hooks |-> EmptyDict]

\* the config with the stop list set to entries
with_stop(config, platform, entries) ==
    Put(config, "hooks",
        Put(Get(config, "hooks", EmptyDict), stop_key(platform), entries))

\* the stop list of a config, [] when there is none
stop_entries(config, platform) ==
    Get(Get(config, "hooks", EmptyDict), stop_key(platform), <<>>)

\* what an install or uninstall leaves: the config file, whether the hook
\* scripts are in the install directory, whether the call raised
Installed(file, dir, raised) == [file |-> file, dir |-> dir, raised |-> raised]

install_append_always(config, platform, exists) ==
    with_stop(config, platform,
              Append(stop_entries(config, platform), new_entry(platform)))

\* if not stop_hook_exists: append the entry
install_append(config, platform, exists) ==
    IF exists THEN with_stop(config, platform, stop_entries(config, platform))
    ELSE with_stop(config, platform,
                   Append(stop_entries(config, platform), new_entry(platform)))

install_config(file, config, platform, exists) ==
    IF exists.raised THEN Installed(file, TRUE, TRUE)
    ELSE Installed(ConfigFile(install_append(config, platform, exists.value)),
                   TRUE, FALSE)

\* install_claude_hooks / install_cursor_hooks: copy the scripts, load the
\* config, add the entry unless one is there, write the config
install_hooks(file, platform) ==
    install_config(file, loaded_config(file, platform), platform,
                   stop_hook_exists(stop_entries(loaded_config(file, platform),
                                                 platform), platform))

uninstall_config(file, dir, platform, kept) ==
    IF kept.raised THEN Installed(file, dir, TRUE)
    ELSE Installed(ConfigFile(with_stop(file.d, platform, kept.value)),
                   FALSE, FALSE)

\* uninstall_claude_hooks / uninstall_cursor_hooks: drop the entries from
\* the stop list if the config has one, write the config, remove the scripts
uninstall_hooks(file, dir, platform) ==
    IF ~file.exists THEN Installed(file, FALSE, FALSE)
    ELSE IF stop_key(platform) \notin DOMAIN Get(file.d, "hooks", EmptyDict)
    THEN Installed(file, FALSE, FALSE)
    ELSE uninstall_config(file, dir, platform,
             without_discuss(stop_entries(file.d, platform), platform))

\* ---- configs a user may have before the first install
MaxInstalls == 2
OtherEntries(platform) ==
    IF platform = "claude"
    THEN {NonDictEntry, BareEntry, ClaudeEntry(<<>>),
          ClaudeEntry(<<OtherCommand>>), ClaudeEntry(<<OtherCommand, OtherCommand>>)}
    ELSE {NonDictEntry, BareEntry, CursorEntry(OtherCommand)}

StopLists(platform) ==
    {<<>>} \cup {<<a>> : a \in OtherEntries(platform)}
           \cup {<<a, b>> : a \in OtherEntries(platform), b \in OtherEntries(platform)}

UserConfigs(platform) ==
    {NoConfig, ConfigFile(EmptyDict), ConfigFile([existingKey |-> "preserved"]),
     ConfigFile([existingKey |-> "preserved", hooks |-> EmptyDict])}
      \cup {ConfigFile([existingKey |-> "preserved",
                        hooks |-> (stop_key(platform) :> l)]) :
               l \in StopLists(platform)}

InitInstall ==
    /\ ComparatorAtRest
    /\ discussRoot = FALSE
    /\ fs = [k \in Keys |-> NoDir(HookDecisionNames, HookNoteNames)]
    /\ storeFile = AbsentFile
    /\ stop = IdleStop
    /\ scenario = NoScenario
    /\ metaFile = AbsentFile
    /\ edit = IdleEdit
    /\ procs = <<>>
    /\ \E p \in InstallPlatforms :
          call \in {[op |-> "install", platform |-> p, before |-> c, file |-> c,
                     dir |-> FALSE, installs |-> 0, last |-> "none",
                     raised |-> FALSE] : c \in UserConfigs(p)}

InstallDone(r, last, n) ==
    call' = [call EXCEPT !.file = r.file, !.dir = r.dir, !.raised = r.raised,
                         !.last = last, !.installs = n]

\* python install.py --platform p
Install ==
    /\ call.op = "install"
    /\ call.last # "uninstall"
    /\ call.installs < MaxInstalls
    /\ InstallDone(install_hooks(call.file, call.platform), "install",
                   call.installs + 1)
    /\ UNCHANGED <<cmpVars, hookVars, editVars, procs>>

\* python install.py --platform p --uninstall
Uninstall ==
    /\ call.op = "install"
    /\ call.last = "install"
    /\ InstallDone(uninstall_hooks(call.file, call.dir, call.platform),
                   "uninstall", call.installs)
    /\ UNCHANGED <<cmpVars, hookVars, editVars, procs>>

NextInstall == Install \/ Uninstall

SpecInstall == InitInstall /\ [][NextInstall]_vars

\* the commands of an entry, and the entries that reference discuss
EntryCommands(h) ==
    IF ~h.isdict THEN {}
    ELSE IF "hooks" \in DOMAIN h.d THEN SeqRange(h.d["hooks"])
    ELSE IF "command" \in DOMAIN h.d THEN {h.d["command"]}
    ELSE {}

DiscussEntries(file, platform) ==
    {i \in 1..Len(stop_entries(file.d, platform)) :
        \E c \in EntryCommands(stop_entries(file.d, platform)[i]) : mentions_discuss(c)}

\* the keys and the stop entries of before are in file, in their order
Preserved(before, file, platform) ==
    /\ \A k \in DOMAIN before.d \ {"hooks"} :
          k \in DOMAIN file.d /\ file.d[k] = before.d[k]
    /\ Len(stop_entries(file.d, platform)) >= Len(stop_entries(before.d, platform))
    /\ \A i \in 1..Len(stop_entries(before.d, platform)) :
          stop_entries(file.d, platform)[i] = stop_entries(before.d, platform)[i]

\* C23: after one or more installs the config holds exactly one stop entry
\* that references discuss and everything it held before; after a following
\* uninstall it holds no stop entry that references discuss.
C23_InstallIdempotent ==
    call.op = "install" =>
        /\ call.last = "install" =>
              /\ call.file.exists
              /\ Cardinality(DiscussEntries(call.file, call.platform)) = 1
              /\ Preserved(call.before, call.file, call.platform)
        /\ call.last = "uninstall" =>
              DiscussEntries(call.file, call.platform) = {}


\* ------------------------------------- comparator: order and idempotence
\* the stored lists hold the files of the scan, one of them in another order
CmpReordered ==
    /\ cmpOld # EmptyDict
    /\ ~CmpFilesDiffer
    /\ \/ cmpOld.decisions # cmpScan.decisions
       \/ cmpOld.notes # cmpScan.notes

\* C24: a scan that lists the same (name, mtime) pairs as the stored state
\* in another order is no change of decisions or notes: change_count is not
\* reset, it is the stored count, or one more when the outline is newer.
C24_OrderInsensitive ==
    (cmpPc = "called" /\ CmpReordered) =>
        /\ cmpRet = CmpOldCount + (IF cmpScan.outline.mtime > CmpOldMtime THEN 1 ELSE 0)
        /\ cmpNew.outline.change_count = cmpRet

C24_Witness ==
    /\ cmpPc = "called"
    /\ CmpReordered
    /\ Len(cmpOld.decisions) = 2
    /\ cmpOld.decisions[1] = cmpScan.decisions[2]
    /\ CmpOldCount = 2
    /\ cmpRet = 2


\* ------------------------------------------ the store after a run
\* what the store file holds for a discussion
StoredState(k) == Get(Get(storeFile.doc, "discussions", EmptyDict), k, EmptyDict)

\* the files of a directory, as a set of (name, mtime) pairs
FilesIn(files) == {<<n, files[n]>> : n \in Present(files)}

\* the run compared discussions and its save_snapshot succeeded
RunSaved == stop.pc = "exited" /\ stop.saved /\ stop.save_ok

TwiceLists == FileLists(HookDecisionNames)
TwiceStored ==
    [outline : [mtime : 0..MaxTime, change_count : 0..MaxCount],
     decisions : TwiceLists, notes : TwiceLists]

\* new_state may carry any change_count when it is passed in
InitCompareTwice ==
    /\ cmpOld \in TwiceStored \cup {EmptyDict}
    /\ cmpNew \in TwiceStored
    /\ cmpScan = cmpNew
    /\ cmpRet = -1
    /\ cmpPc = "ready"
    /\ HooksAtRest

\* the second call, on old_state and the new_state the first call has mutated
CompareAgain ==
    /\ cmpPc = "called"
    /\ call = NoCall
    /\ call' = [op |-> "compared_again",
                ret |-> compare_and_update(cmpOld, cmpNew).ret,
                new_state |-> compare_and_update(cmpOld, cmpNew).new_state]
    /\ UNCHANGED <<cmpVars, hookVars, editVars, procs>>

NextCompareTwice == Compare \/ CompareAgain

SpecCompareTwice == InitCompareTwice /\ [][NextCompareTwice]_vars

\* C26: a second call of compare_and_update on the same pair returns what
\* the first returned and leaves new_state as the first left it, and the
\* result is the one for a new_state that carries change_count 0.
C26_Idempotent ==
    /\ call.op = "compared_again" =>
          /\ call.ret = cmpRet
          /\ call.new_state = cmpNew
    /\ cmpPc = "called" =>
          cmpRet = compare_and_update(
                       cmpOld, [cmpScan EXCEPT !.outline.change_count = 0]).ret

\* the first call has raised the count carried in new_state, and the second
\* call returns the same
C26_Witness ==
    /\ call.op = "compared_again"
    /\ cmpScan.outline.change_count = 0
    /\ cmpNew.outline.change_count = 2
    /\ call.ret = 2


\* C27: every change_count in the store file is a non-negative integer, in
\* every state reached from the absent store by file changes and
\* conversation-end runs.
C27_CountNonNegative ==
    storeFile.kind = "yaml" =>
        \A k \in StoredKeys(storeFile) :
            /\ StoredState(k).outline.change_count \in Nat
            /\ StoredState(k).outline.change_count >= 0

\* a run has stored count 2 with outline mtime 1: the count has grown twice
\* and was kept by a run that saw the mtime go down
C27_Witness ==
    /\ RunSaved
    /\ \E k \in StoredKeys(storeFile) :
          /\ StoredState(k).outline.change_count = 2
          /\ StoredState(k).outline.mtime = 1


\* ---- cleanup_deleted_discussions on snapshots with several keys
CleanupKeys == {"2026-01-30/deleted-topic", "2026-01-30/existing-topic",
                "2026-01-28/topic"}
CleanupStates ==
    {[outline |-> [mtime |-> 1, change_count |-> 1],
      decisions |-> <<>>, notes |-> <<>>],
     [outline |-> [mtime |-> 2, change_count |-> 0],
      decisions |-> <<[name |-> 1, mtime |-> 1]>>, notes |-> <<>>]}

\* what is at discuss_root / key: nothing, a regular file or a directory
MissingPath == [exists |-> FALSE, is_file |-> FALSE]
FilePath == [exists |-> TRUE, is_file |-> TRUE]
DirPath == [exists |-> TRUE, is_file |-> FALSE]
CleanupDirs == [CleanupKeys -> {MissingPath, FilePath, DirPath}]

CleanupDiscussions ==
    UNION {[ks -> CleanupStates] : ks \in SUBSET CleanupKeys}
CleanupSnapshots ==
    {[version |-> 1, config |-> [stale_threshold |-> t], discussions |-> d] :
        t \in {1, DEFAULT_STALE_THRESHOLD}, d \in CleanupDiscussions}
    \cup {[version |-> 1]}

InitCleanup ==
    /\ call \in {[op |-> "cleanup", snapshot |-> s, dirs |-> d] :
                    s \in CleanupSnapshots, d \in CleanupDirs}
    /\ procs = <<>>
    /\ metaFile = AbsentFile
    /\ edit = IdleEdit
    /\ discussRoot = TRUE
    /\ fs = [k \in Keys |-> NoDir(HookDecisionNames, HookNoteNames)]
    /\ storeFile = AbsentFile
    /\ stop = IdleStop
    /\ scenario = NoScenario
    /\ ComparatorAtRest

CallCleanup ==
    /\ call.op = "cleanup"
    /\ call' = [op |-> "cleaned", snapshot |-> call.snapshot,
                dirs |-> call.dirs,
                result |-> cleanup_deleted_discussions(call.snapshot, call.dirs)]
    /\ UNCHANGED <<cmpVars, hookVars, editVars, procs>>

NextCleanup == CallCleanup

SpecCleanup == InitCleanup /\ [][NextCleanup]_vars

DiscussionsOf(snapshot) == Get(snapshot, "discussions", EmptyDict)

\* C28: cleanup_deleted_discussions removes exactly the keys at which the
\* root holds no directory, leaves every other key with its value and the
\* rest of the snapshot as they were, and returns the number of keys removed.
C28_CleanupExact ==
    call.op = "cleaned" =>
        LET before == DiscussionsOf(call.snapshot)
            after == DiscussionsOf(call.result.snapshot)
            gone == {k \in DOMAIN before : call.dirs[k] # DirPath}
        IN  /\ DOMAIN after = DOMAIN before \ gone
            /\ \A k \in DOMAIN after : after[k] = before[k]
            /\ DOMAIN call.result.snapshot = DOMAIN call.snapshot
            /\ \A f \in DOMAIN call.snapshot \ {"discussions"} :
                   call.result.snapshot[f] = call.snapshot[f]
            /\ call.result.cleaned = Cardinality(gone)

\* three stored keys: one without a path, one whose path is a regular file
\* and one whose directory exists; two are removed and one is kept
C28_Witness ==
    /\ call.op = "cleaned"
    /\ DOMAIN DiscussionsOf(call.snapshot) = CleanupKeys
    /\ \E a, b, c \in CleanupKeys :
          /\ call.dirs[a] = MissingPath
          /\ call.dirs[b] = FilePath
          /\ call.dirs[c] = DirPath
          /\ DOMAIN DiscussionsOf(call.result.snapshot) = {c}
    /\ call.result.cleaned = 2


\* ---- one run of main, statement by statement
StepKeys == MultiKeys
StepInputs ==
    {DictStdin([status |-> "completed"]),
     DictStdin([hook_event_name |-> "Stop", stop_hook_active |-> FALSE]),
     DictStdin([hook_event_name |-> "Stop", stop_hook_active |-> TRUE])}
StepDirs ==
    {NoDir(HookDecisionNames, HookNoteNames)}
    \cup {[NoDir(HookDecisionNames, HookNoteNames)
              EXCEPT !.exists = TRUE, !.recent = r, !.outline = 2] :
            r \in BOOLEAN}
StepStored ==
    {[outline |-> [mtime |-> 1, change_count |-> c],
      decisions |-> <<>>, notes |-> <<>>] : c \in {0, 1}}
StepStores ==
    {AbsentFile}
    \cup {YamlFile([version |-> 1, config |-> [stale_threshold |-> t],
                    discussions |-> d]) :
            t \in MultiThresholds,
            d \in UNION {[ks -> StepStored] : ks \in SUBSET StepKeys}}

Event(ev, key, ok) == [ev |-> ev, key |-> key, ok |-> ok]

\* procs: the run (pc, the locals of main, what it has printed) and log,
\* the comparisons, the pruning, the save and the response in their order
InitSteps ==
    /\ ComparatorAtRest
    /\ discussRoot \in BOOLEAN
    /\ fs \in [StepKeys -> StepDirs]
    /\ ~discussRoot => \A k \in StepKeys : ~fs[k].exists
    /\ storeFile \in StepStores
    /\ ~discussRoot => storeFile = AbsentFile
    /\ stop = IdleStop
    /\ scenario = NoScenario
    /\ metaFile = AbsentFile
    /\ edit = IdleEdit
    /\ call = NoCall
    /\ \E stdin \in StepInputs :
          procs = [pc |-> "start", stdin |-> stdin, pre |-> storeFile,
                   snapshot |-> EmptyDict, threshold |-> 0, order |-> <<>>,
                   stale_reminders |-> <<>>, counts |-> EmptyDict,
                   stdout |-> <<>>, log |-> <<>>]

StepFrame == UNCHANGED <<cmpVars, discussRoot, fs, stop, scenario, editVars, call>>

\* allow_and_exit
StepAllow ==
    procs' = [procs EXCEPT !.pc = "done",
                           !.stdout = Append(@, format_output_allow),
                           !.log = Append(@, Event("respond", "", TRUE))]

\* main up to the test for the .discuss directory
StepEnter ==
    /\ procs.pc = "start"
    /\ IF Truthy(procs.stdin) /\ is_stop_hook_active(procs.stdin.d)
       THEN StepAllow
       ELSE IF ~discussRoot THEN StepAllow
       ELSE procs' = [procs EXCEPT !.pc = "entered"]
    /\ UNCHANGED storeFile
    /\ StepFrame

\* snapshot = load_snapshot(discuss_root) and the threshold
StepLoad ==
    /\ procs.pc = "entered"
    /\ procs' = [procs EXCEPT
                   !.pc = "loaded",
                   !.snapshot = load_snapshot(storeFile),
                   !.threshold =
                       Get(Get(load_snapshot(storeFile), "config", EmptyDict),
                           "stale_threshold", 3)]
    /\ UNCHANGED storeFile
    /\ StepFrame

\* find_active_discussions and the test for an empty list
StepFind ==
    /\ procs.pc = "loaded"
    /\ IF find_active_discussions(discussRoot, fs) = {}
       THEN StepAllow
       ELSE \E order \in Orders(find_active_discussions(discussRoot, fs)) :
               procs' = [procs EXCEPT !.pc = "loop", !.order = order]
    /\ UNCHANGED storeFile
    /\ StepFrame

\* the locals of main after one pass of the loop over key
StepCompared(key, loop) ==
    procs' = [procs EXCEPT
                !.order = Tail(@),
                !.snapshot = loop.snapshot,
                !.stale_reminders = loop.stale_reminders,
                !.counts = loop.counts,
                !.log = Append(@, Event("compare", key, TRUE))]

\* one pass of the loop
StepCompare ==
    /\ procs.pc = "loop"
    /\ procs.order # <<>>
    /\ \E scan \in ScanResults(fs[Head(procs.order)]) :
          StepCompared(Head(procs.order),
              check_discussions(<<Head(procs.order)>>,
                  [k \in {Head(procs.order)} |-> scan],
                  [snapshot |-> procs.snapshot,
                   stale_reminders |-> procs.stale_reminders,
                   counts |-> procs.counts],
                  procs.threshold))
    /\ UNCHANGED storeFile
    /\ StepFrame

\* cleanup_deleted_discussions(snapshot, discuss_root)
StepCleanup ==
    /\ procs.pc = "loop"
    /\ procs.order = <<>>
    /\ procs' = [procs EXCEPT
                   !.pc = "pruned",
                   !.snapshot = cleanup_deleted_discussions(@, fs).snapshot,
                   !.log = Append(@, Event("prune", "", TRUE))]
    /\ UNCHANGED storeFile
    /\ StepFrame

\* save_snapshot(discuss_root, snapshot); its return value is not read
StepSave(saveFault) ==
    /\ procs.pc = "pruned"
    /\ storeFile' = save_snapshot(storeFile, procs.snapshot, saveFault)
    /\ procs' = [procs EXCEPT
                   !.pc = "saved",
                   !.log = Append(@, Event("save", "", saveFault = "none"))]
    /\ StepFrame

\* block_and_exit when there are reminders, allow_and_exit otherwise
StepRespond ==
    /\ procs.pc = "saved"
    /\ procs' = [procs EXCEPT
                   !.pc = "done",
                   !.stdout = respond(procs.stale_reminders,
                                      platform_of(procs.stdin)),
                   !.log = Append(@, Event("respond", "", TRUE))]
    /\ UNCHANGED storeFile
    /\ StepFrame

NextSteps ==
    \/ StepEnter
    \/ StepLoad
    \/ StepFind
    \/ StepCompare
    \/ StepCleanup
    \/ \E saveFault \in SaveFaults : StepSave(saveFault)
    \/ StepRespond

SpecSteps == InitSteps /\ [][NextSteps]_vars

StepAt(ev) == {i \in 1..Len(procs.log) : procs.log[i].ev = ev}
StepActive == find_active_discussions(discussRoot, fs)
StepEarlyExit ==
    \/ is_stop_hook_active(procs.stdin.d)
    \/ ~discussRoot
    \/ StepActive = {}

IllTypedPlaces == {"document", "config", "stale_threshold", "discussions"}
IllTypes(where) ==
    IF where = "document" THEN {"int", "str", "list"}
    ELSE IF where = "stale_threshold" THEN {"str", "list", "null"}
    ELSE {"int", "str", "list", "null"}
IllTypedFiles ==
    UNION {{IllTypedFile(where, type) : type \in IllTypes(where)} :
              where \in IllTypedPlaces}
CorruptFiles == {UnparsableFile} \cup IllTypedFiles

\* one discussion with an outline; the store file is corrupt
InitCorrupt ==
    /\ ComparatorAtRest
    /\ EditAtRest
    /\ discussRoot = TRUE
    /\ fs = [k \in Keys |->
               [NoDir(HookDecisionNames, HookNoteNames)
                   EXCEPT !.exists = TRUE, !.recent = TRUE, !.outline = 1]]
    /\ storeFile \in CorruptFiles
    /\ stop = IdleStop
    /\ scenario = NoScenario

NextCorrupt ==
    \/ \E k \in Keys, t \in 1..MaxTime : WriteOutline(k, t) /\ UNCHANGED scenario
    \/ \E k \in Keys, n \in HookDecisionNames, t \in 1..MaxFileTime :
           WriteDecision(k, n, t) /\ UNCHANGED scenario
    \/ \E k \in Keys : Age(k) /\ UNCHANGED scenario
    \/ \E stdin \in MultiInputs :
          StopHook(stdin, "none", "none", HookMaxCount) /\ UNCHANGED scenario
    \/ HostCollects /\ UNCHANGED scenario

SpecCorrupt == InitCorrupt /\ [][NextCorrupt]_vars

\* the file holds a snapshot with version, config.stale_threshold and
\* a discussions mapping
WellFormedStore(file) ==
    /\ file.kind = "yaml"
    /\ {"version", "config", "discussions"} \subseteq DOMAIN file.doc
    /\ "stale_threshold" \in DOMAIN file.doc["config"]
    /\ file.doc["config"]["stale_threshold"] \in Nat

\* a run starts on a corrupt store file with an active discussion
RunOnCorrupt ==
    /\ stop.pc = "idle"
    /\ stop'.pc = "exited"
    /\ storeFile \in CorruptFiles
    /\ find_active_discussions(discussRoot, fs) # {}

\* C30: a conversation-end run with an active discussion on a store file
\* that is unparsable or ill-typed answers with {} or a reminder and
\* leaves a well-formed store whose discussions are those of a run on
\* fresh state.
C30_CorruptIsReset ==
    [][RunOnCorrupt =>
          /\ Len(stop'.stdout) = 1
          /\ stop'.exit = 0
          /\ WellFormedStore(storeFile')
          /\ \A k \in DOMAIN Get(storeFile'.doc, "discussions", EmptyDict) :
                storeFile'.doc["discussions"][k].outline.change_count \in {0, 1}]_vars


\* ---- the edit-time hook: classification and marking
\* the path an input names, NoPath when it names none
EditedPath(stdin) ==
    IF stdin.kind # "dict" THEN NoPath
    ELSE IF "file_path" \in DOMAIN stdin.d THEN stdin.d["file_path"]
    ELSE IF "tool_input" \in DOMAIN stdin.d /\ stdin.d["tool_input"].isdict
    THEN Get(stdin.d["tool_input"].d, "file_path", NoPath)
    ELSE NoPath

\* the category by the place of the path below the discussion root
CategoryByPlace(path) ==
    IF path.type # "str" \/ path.dir # DiscussDir \/ path.parts = <<>> THEN NoType
    ELSE IF path.parts = <<"outline.md">> THEN "outline"
    ELSE IF path.parts[1] = "decisions" THEN "decisions"
    ELSE IF path.parts[1] = "notes" THEN "notes"
    ELSE NoType

\* the fields of a category in a meta document, with the defaults
StatusIn(doc, t) == Get(Get(doc, "file_status", EmptyDict), t, EmptyDict)
PendingIn(doc, t) == Get(StatusIn(doc, t), "pending_update", FALSE)
LastRunIn(doc, t) == Get(StatusIn(doc, t), "last_modified_run", 0)
CurrentRunIn(doc) == Get(doc, "current_run", 0)

\* doc is before with the flag of category t set and nothing else changed
MarkedOnly(before, doc, t) ==
    /\ PendingIn(doc, t)
    /\ \A u \in FileTypes \ {t} : PendingIn(doc, u) = PendingIn(before, u)
    /\ \A u \in FileTypes : LastRunIn(doc, u) = LastRunIn(before, u)
    /\ CurrentRunIn(doc) = CurrentRunIn(before)

\* the meta document a run of the edit-time hook starts from
MetaBefore == IF metaFile.kind = "yaml" THEN metaFile.doc ELSE create_initial_meta

\* an edit of a path below the discussion root, by a run that raised nothing
EditUnderRoot(stdin, loadFault, saveFault) ==
    /\ EditHook(stdin, loadFault, saveFault)
    /\ EditedPath(stdin).type = "str"
    /\ EditedPath(stdin).dir = DiscussDir
    /\ metaFile.kind # "absent"
    /\ ~edit'.raised

\* C31: an edit below the discussion root is classified by its place:
\* decisions/ gives decisions, notes/ gives notes, outline.md at the root
\* gives outline, any other path is untracked and leaves meta.yaml alone;
\* marking sets the pending flag of that category only and keeps the other
\* flags, every last_modified_run and current_run.
C31_EditClassifies ==
    [][\A stdin \in EditInputs, loadFault \in MetaFaults, saveFault \in SaveFaults :
          EditUnderRoot(stdin, loadFault, saveFault) =>
              /\ edit'.file_type = CategoryByPlace(EditedPath(stdin))
              /\ IF CategoryByPlace(EditedPath(stdin)) = NoType
                 THEN metaFile' = metaFile
                 ELSE /\ metaFile'.kind = "yaml"
                      /\ MarkedOnly(MetaBefore, metaFile'.doc,
                                    CategoryByPlace(EditedPath(stdin)))]_vars


\* ---- the legacy bookkeeping of meta.yaml, from create_initial_meta
MetaMaxRun == 4

\* call.meta: the meta dictionary; call.before: the one the last call was
\* given; call.last: the last call; call.stale: what check_stale_status
\* returns for call.meta
MetaCall(meta, before, last) ==
    [op |-> "meta", meta |-> meta, before |-> before, last |-> last,
     stale |-> check_stale_status(meta).value]

InitMeta ==
    /\ ComparatorAtRest
    /\ discussRoot = FALSE
    /\ fs = [k \in Keys |-> NoDir(HookDecisionNames, HookNoteNames)]
    /\ storeFile = AbsentFile
    /\ stop = IdleStop
    /\ scenario = NoScenario
    /\ metaFile = AbsentFile
    /\ edit = IdleEdit
    /\ procs = <<>>
    /\ call = MetaCall(create_initial_meta, create_initial_meta, "create_initial_meta")

MetaFrame == UNCHANGED <<cmpVars, hookVars, editVars, procs>>

MetaSetPending(file_type) ==
    /\ call.op = "meta"
    /\ ~set_pending_update(call.meta, file_type).raised
    /\ call' = MetaCall(set_pending_update(call.meta, file_type).value,
                        call.meta, "set_pending_update")
    /\ MetaFrame

MetaClear ==
    /\ call.op = "meta"
    /\ call.meta["current_run"] < MetaMaxRun
    /\ ~clear_pending_and_update_run(call.meta).raised
    /\ call' = MetaCall(clear_pending_and_update_run(call.meta).value,
                        call.meta, "clear_pending_and_update_run")
    /\ MetaFrame

NextMeta ==
    \/ \E file_type \in FileTypes : MetaSetPending(file_type)
    \/ MetaClear

SpecMeta == InitMeta /\ [][NextMeta]_vars

RerunDecisionNames == {1, 2}
RerunDecisionTimes == {1, 2}
RerunInputs ==
    {DictStdin([status |-> "completed"]),
     DictStdin([hook_event_name |-> "Stop", stop_hook_active |-> TRUE])}

\* the files of a discussion directory, without the age of the directory
FilesSeen(dirs) ==
    [k \in DOMAIN dirs |->
        [exists |-> dirs[k].exists, outline |-> dirs[k].outline,
         decisions |-> dirs[k].decisions, notes |-> dirs[k].notes]]

\* call.saved: the last run saved the store; call.seen: the files at the
\* last run, kept when it saved;
\* call.quiet: the last run began with the files and the store as the run
\* before it, which had saved, left them; call.before: the store file the
\* last run found, kept when it was quiet
NoRuns == [op |-> "runs", seen |-> <<>>, saved |-> FALSE,
           before |-> AbsentFile, quiet |-> FALSE]

\* nothing was discussed yet; the store holds a threshold
InitRerun ==
    /\ ComparatorAtRest
    /\ fs = [k \in Keys |-> NoDir(RerunDecisionNames, HookNoteNames)]
    /\ storeFile \in {YamlFile([config |-> [stale_threshold |-> t]]) :
                         t \in Thresholds}
    /\ discussRoot = TRUE
    /\ stop = IdleStop
    /\ scenario = NoScenario
    /\ metaFile = AbsentFile
    /\ edit = IdleEdit
    /\ procs = <<>>
    /\ call = NoRuns

\* the files are as the last run, which saved, saw them
RerunQuiet == call.saved /\ call.seen = FilesSeen(fs)

\* a run of the hook; the files and the store it found are recorded
RerunStopHook(stdin) ==
    /\ stop.pc = "idle"
    /\ call.op = "runs"
    /\ \A c \in StoredCounts(storeFile) : c < HookMaxCount
    /\ \E order \in Orders(find_active_discussions(discussRoot, fs)),
          scan \in ScanChoices(find_active_discussions(discussRoot, fs)) :
            RunStopHook(stdin, "none", "none", order, scan)
    /\ call' = [op |-> "runs",
                seen |-> IF stop'.saved THEN FilesSeen(fs) ELSE <<>>,
                saved |-> stop'.saved,
                before |-> IF RerunQuiet THEN storeFile ELSE AbsentFile,
                quiet |-> RerunQuiet]
    /\ UNCHANGED <<discussRoot, fs, scenario, cmpVars, editVars, procs>>

NextRerun ==
    \/ \E k \in Keys : CreateDiscussion(k) /\ UNCHANGED scenario
    \/ \E k \in Keys : DeleteDiscussion(k) /\ UNCHANGED scenario
    \/ \E k \in Keys, t \in 1..MaxTime : WriteOutline(k, t) /\ UNCHANGED scenario
    \/ \E k \in Keys, n \in RerunDecisionNames, t \in RerunDecisionTimes :
           WriteDecision(k, n, t) /\ UNCHANGED scenario
    \/ \E k \in Keys, n \in RerunDecisionNames :
           RemoveDecision(k, n) /\ UNCHANGED scenario
    \/ \E k \in Keys, n \in HookNoteNames, t \in HookNoteTimes :
           WriteNote(k, n, t) /\ UNCHANGED scenario
    \/ \E k \in Keys : Age(k) /\ UNCHANGED scenario
    \/ \E stdin \in RerunInputs : RerunStopHook(stdin)
    \/ HostCollects /\ UNCHANGED scenario

SpecRerun == InitRerun /\ [][NextRerun]_vars

DiscussionsIn(file) == Get(file.doc, "discussions", EmptyDict)

\* the two files hold the same version and config and, for the same keys,
\* the same outline mtime and change_count and the same decision and note
\* entries
SameStore(a, b) ==
    /\ a.kind = b.kind
    /\ DOMAIN a.doc = DOMAIN b.doc
    /\ \A f \in DOMAIN a.doc \ {"discussions"} : a.doc[f] = b.doc[f]
    /\ DOMAIN DiscussionsIn(a) = DOMAIN DiscussionsIn(b)
    /\ \A k \in DOMAIN DiscussionsIn(a) :
          /\ DiscussionsIn(a)[k].outline = DiscussionsIn(b)[k].outline
          /\ FilesOf(DiscussionsIn(a)[k].decisions)
                = FilesOf(DiscussionsIn(b)[k].decisions)
          /\ Len(DiscussionsIn(a)[k].decisions) = Len(DiscussionsIn(b)[k].decisions)
          /\ FilesOf(DiscussionsIn(a)[k].notes) = FilesOf(DiscussionsIn(b)[k].notes)
          /\ Len(DiscussionsIn(a)[k].notes) = Len(DiscussionsIn(b)[k].notes)

\* C33: a run that finds the files as the run before it saw them, and the
\* store as that run saved it, leaves the store with the same entries: no
\* change_count moves, no entry is added or removed, version and config
\* stay.
C33_RerunKeepsStore ==
    (call.op = "runs" /\ call.quiet) => SameStore(call.before, storeFile)

\* the second of two runs on the same files has saved: the count 2 stays 2
\* and the two decision files stay listed
C33_Witness ==
    /\ call.op = "runs"
    /\ call.quiet
    /\ stop.pc = "exited"
    /\ stop.saved
    /\ \E k \in StoredKeys(storeFile) :
          /\ StoredState(k).outline.change_count = 2
          /\ Len(StoredState(k).decisions) = 2
          /\ stop.counts[k] = 2


\* the run that begins finds discussion k active, stored with a
\* change_count at or above the stored threshold, and its decision and
\* note files as they are stored
ReminderDue(k) ==
    /\ k \in find_active_discussions(discussRoot, fs)
    /\ storeFile.kind = "yaml"
    /\ k \in StoredKeys(storeFile)
    /\ StoredState(k).outline.change_count >= StoredThreshold(storeFile)
    /\ FilesOf(StoredState(k).decisions) = FilesIn(fs[k].decisions)
    /\ FilesOf(StoredState(k).notes) = FilesIn(fs[k].notes)

\* C34: a run without the re-entry flag reminds of every active discussion
\* whose stored change_count is at or above the threshold and whose
\* decisions and notes have not changed, whether or not an earlier run has
\* reminded of it and whether or not anything changed; a run with the
\* flag reminds of nothing.
C34_RemindsAgain ==
    [][(stop.pc = "idle" /\ stop'.pc = "exited") =>
          \A k \in Keys :
              IF stop'.reentry THEN ReminderLevel(k)' = "none"
              ELSE ReminderDue(k) =>
                      /\ ReminderLevel(k)' # "none"
                      /\ stop'.counts[k] >= StoredThreshold(storeFile)]_vars

\* a run that found the files and the store as the run before it left them
\* has reminded again
C34_Witness ==
    /\ call.op = "runs"
    /\ call.quiet
    /\ stop.pc = "exited"
    /\ ~stop.reentry
    /\ \E k \in Keys :
          /\ ReminderLevel(k) = "suggest"
          /\ stop.counts[k] = 1
          /\ StoredState(k).outline.change_count = 1


\* ---- runs and the outline edits between them
PaceThresholds == {1, 2}
PaceMaxEdits == 2
PaceMaxTime == 3

\* call.since: the runs that processed the discussion since its stored
\* change_count was 0; call.edits: the outline edits since the last run;
\* call.modified: the edits the last run came after; call.grew: by how
\* much the last run raised the change_count; call.peak: the largest outline
\* mtime a run has seen
NoPace == [op |-> "pace", since |-> 0, edits |-> 0, modified |-> 0, grew |-> 0,
           peak |-> 0]

PaceKey == CHOOSE k \in Keys : TRUE

\* one discussion with an outline, stored by no run yet
InitPace ==
    /\ ComparatorAtRest
    /\ discussRoot = TRUE
    /\ fs = [k \in Keys |->
               [NoDir(HookDecisionNames, HookNoteNames)
                   EXCEPT !.exists = TRUE, !.recent = TRUE]]
    /\ storeFile \in {YamlFile([config |-> [stale_threshold |-> t]]) :
                         t \in PaceThresholds}
    /\ stop = IdleStop
    /\ scenario = NoScenario
    /\ metaFile = AbsentFile
    /\ edit = IdleEdit
    /\ procs = <<>>
    /\ call = NoPace

\* the outline is written once more, with a later or an earlier mtime
PaceWriteOutline(k, t) ==
    /\ stop.pc = "idle"
    /\ call.op = "pace"
    /\ call.edits < PaceMaxEdits
    /\ t # fs[k].outline
    /\ fs' = [fs EXCEPT ![k].outline = t, ![k].recent = TRUE]
    /\ call' = [call EXCEPT !.edits = @ + 1]
    /\ UNCHANGED <<discussRoot, storeFile, stop, scenario, cmpVars, editVars, procs>>

PaceStoredCount(file) ==
    IF file.kind = "yaml" /\ PaceKey \in StoredKeys(file)
    THEN DiscussionsIn(file)[PaceKey].outline.change_count
    ELSE 0

\* a run of the hook
PaceStopHook(stdin) ==
    /\ stop.pc = "idle"
    /\ call.op = "pace"
    /\ \A c \in StoredCounts(storeFile) : c < HookMaxCount
    /\ \E order \in Orders(find_active_discussions(discussRoot, fs)),
          scan \in ScanChoices(find_active_discussions(discussRoot, fs)) :
            RunStopHook(stdin, "none", "none", order, scan)
    /\ call' = [op |-> "pace",
                since |-> IF PaceKey \notin DOMAIN stop'.counts THEN call.since
                          ELSE IF stop'.counts[PaceKey] = 0 THEN 0
                          ELSE IF call.since <= HookMaxCount THEN call.since + 1
                          ELSE call.since,
                edits |-> 0,
                modified |-> call.edits,
                peak |-> IF PaceKey \in DOMAIN stop'.counts
                            /\ fs[PaceKey].outline > call.peak
                         THEN fs[PaceKey].outline ELSE call.peak,
                grew |-> IF PaceKey \in DOMAIN stop'.counts
                         THEN stop'.counts[PaceKey] - PaceStoredCount(storeFile)
                         ELSE 0]
    /\ UNCHANGED <<discussRoot, fs, scenario, cmpVars, editVars, procs>>

NextPace ==
    \/ \E k \in Keys, t \in 1..PaceMaxTime : PaceWriteOutline(k, t)
    \/ \E k \in Keys, n \in HookDecisionNames, t \in 1..MaxFileTime :
           WriteDecision(k, n, t) /\ UNCHANGED scenario
    \/ \E stdin \in MultiInputs : PaceStopHook(stdin)
    \/ HostCollects /\ UNCHANGED scenario

SpecPace == InitPace /\ [][NextPace]_vars

PaceOutlineOnly ==
    /\ stop.pc = "idle"
    /\ stop'.pc = "exited"
    /\ PaceKey \in find_active_discussions(discussRoot, fs)
    /\ storeFile.kind = "yaml"
    /\ PaceKey \in StoredKeys(storeFile)
    /\ FilesOf(StoredState(PaceKey).decisions) = FilesIn(fs[PaceKey].decisions)
    /\ FilesOf(StoredState(PaceKey).notes) = FilesIn(fs[PaceKey].notes)

\* C36: the outline mtime a run compares with is the one the run before it
\* stored: a run that sees a smaller mtime keeps the count and stores the
\* smaller mtime, and a run that sees an mtime above the stored one adds 1,
\* also when that mtime is not above the largest mtime seen so far.
C36_BaselineIsLastSeen ==
    [][PaceOutlineOnly =>
          /\ stop'.counts[PaceKey] =
                StoredState(PaceKey).outline.change_count
                    + (IF fs[PaceKey].outline > StoredState(PaceKey).outline.mtime
                       THEN 1 ELSE 0)
          /\ StoredState(PaceKey)'.outline.mtime = fs[PaceKey].outline]_vars

\* the last run raised the count to 2 on an mtime below the largest
\* mtime a run has seen
C36_Witness ==
    /\ call.op = "pace"
    /\ stop.pc = "exited"
    /\ call.grew = 1
    /\ PaceStoredCount(storeFile) = 2
    /\ DiscussionsIn(storeFile)[PaceKey].outline.mtime = 2
    /\ call.peak = 3


\* ------------------------------------- discussions a run does not compare
InactiveKeys == MultiKeys \cup UndatedKeys

\* what an earlier run or the user's hand has left in the store for a
\* directory outside the date directories
CarriedEntry ==
    [outline |-> [mtime |-> 1, change_count |-> 2],
     decisions |-> <<>>,
     notes |-> <<>>]

\* three discussions, each with an outline; the store holds a version that
\* is not the default, a threshold, and an entry for the undated directory
InitInactive ==
    /\ ComparatorAtRest
    /\ EditAtRest
    /\ discussRoot = TRUE
    /\ fs = [k \in InactiveKeys |->
               [NoDir(HookDecisionNames, HookNoteNames)
                   EXCEPT !.exists = TRUE, !.recent = TRUE, !.outline = 1]]
    /\ storeFile \in
          {YamlFile([version |-> 2,
                     config |-> [stale_threshold |-> t],
                     discussions |-> [k \in UndatedKeys |-> CarriedEntry]]) :
              t \in MultiThresholds}
    /\ stop = IdleStop
    /\ scenario = NoScenario

NextInactive ==
    \/ \E k \in InactiveKeys, t \in 1..MaxTime :
          WriteOutline(k, t) /\ UNCHANGED scenario
    \/ \E k \in InactiveKeys : Age(k) /\ UNCHANGED scenario
    \/ \E stdin \in MultiInputs :
          StopHook(stdin, "none", "none", MultiMaxCount) /\ UNCHANGED scenario
    \/ HostCollects /\ UNCHANGED scenario

SpecInactive == InitInactive /\ [][NextInactive]_vars

\* the directory is there, and either nothing under it was modified within
\* the window or its parent is not a date directory
Inactive(k) == fs[k].exists /\ (~fs[k].recent \/ ~under_date_dir(k))

\* C37: a run leaves the store entry of every discussion that exists but is
\* not active as it was (present or absent alike) and reminds of none of
\* them, whatever their stored change_count, and it leaves the store's
\* version and config as they were.
C37_InactiveUntouched ==
    [][(stop.pc = "idle" /\ stop'.pc = "exited") =>
          /\ \A k \in InactiveKeys :
                Inactive(k) =>
                   /\ (k \in StoredKeys(storeFile)) <=> (k \in StoredKeys(storeFile'))
                   /\ k \in StoredKeys(storeFile) => StoredState(k)' = StoredState(k)
                   /\ RemindersFor(k)' = {}
          /\ storeFile'.doc["version"] = storeFile.doc["version"]
          /\ storeFile'.doc["config"] = storeFile.doc["config"]]_vars

\* a run has saved the store and reminded of one discussion while an aged
\* discussion and the undated one, both stored with a count at or above the
\* threshold, got no reminder
C37_Witness ==
    /\ stop.pc = "exited"
    /\ \E j \in MultiKeys : RemindersFor(j) # {}
    /\ \E k \in MultiKeys :
          /\ Inactive(k)
          /\ k \in StoredKeys(storeFile)
          /\ StoredState(k).outline.change_count >= StoredThreshold(storeFile)
          /\ RemindersFor(k) = {}
    /\ \E u \in UndatedKeys :
          /\ fs[u].recent
          /\ StoredState(u).outline.change_count >= StoredThreshold(storeFile)
          /\ RemindersFor(u) = {}


\* ----------------------------------- a threshold the user has set by hand
HandThresholds == {-1, 0, 1, 2}

\* one discussion with an outline; the store holds the threshold only
InitThreshold ==
    /\ ComparatorAtRest
    /\ EditAtRest
    /\ discussRoot = TRUE
    /\ fs = [k \in Keys |->
               [NoDir(HookDecisionNames, HookNoteNames)
                   EXCEPT !.exists = TRUE, !.recent = TRUE, !.outline = 1]]
    /\ storeFile \in {YamlFile([config |-> [stale_threshold |-> t]]) :
                         t \in HandThresholds}
    /\ stop = IdleStop
    /\ scenario = NoScenario

NextThreshold ==
    \/ \E k \in Keys, t \in 1..MaxTime : WriteOutline(k, t) /\ UNCHANGED scenario
    \/ \E k \in Keys, n \in HookDecisionNames, t \in 1..MaxFileTime :
           WriteDecision(k, n, t) /\ UNCHANGED scenario
    \/ \E k \in Keys, n \in HookDecisionNames :
           RemoveDecision(k, n) /\ UNCHANGED scenario
    \/ \E k \in Keys : Age(k) /\ UNCHANGED scenario
    \/ \E stdin \in MultiInputs :
          StopHook(stdin, "none", "none", HookMaxCount) /\ UNCHANGED scenario
    \/ HostCollects /\ UNCHANGED scenario

SpecThreshold == InitThreshold /\ [][NextThreshold]_vars

\* C38: whatever stale_threshold the store holds, zero and negative values
\* included, a run that leaves a discussion with change_count 0 gives no
\* reminder for that discussion.
C38_ZeroCountSilent ==
    (stop.pc = "exited" /\ ~stop.raised /\ ~stop.reentry) =>
        \A k \in DOMAIN stop.counts :
            stop.counts[k] = 0 => RemindersFor(k) = {}


\* ----------------------- the conversation-end hook and the legacy records
\* The files a run can find: the discussion directories, the store, the
\* meta.yaml of the discussion and the session files.

\* a conversation-end hook that also clears the pending flags of meta.yaml
cleared_meta(file, cleared) ==
    IF cleared.raised THEN file ELSE YamlFile(cleared.value)

process_ended_clearing(files, r) ==
    [result |-> r,
     files |-> [files EXCEPT
                  !.store = r.store,
                  !.meta = IF files.meta.kind = "yaml"
                           THEN cleared_meta(files.meta,
                                    clear_pending_and_update_run(files.meta.doc))
                           ELSE files.meta]]

check_precipitation_clearing(stdin, order, scan, files) ==
    process_ended_clearing(files,
        main(stdin, "none", "none", order, scan,
             files.root, files.dirs, files.store))

\* check_precipitation.py as a process: of the files it reads the
\* directories and the store and writes the store; it imports nothing of
\* meta_parser or session_manager
process_ended(files, r) ==
    [result |-> r, files |-> [files EXCEPT !.store = r.store]]

check_precipitation(stdin, order, scan, files) ==
    process_ended(files,
        main(stdin, "none", "none", order, scan,
             files.root, files.dirs, files.store))

LegacyRef == [platform |-> "claude-code", id |-> "s1"]
LegacyPaths ==
    {PathValue(DiscussDir, <<"outline.md">>),
     PathValue(DiscussDir, <<"decisions", "D01-choice.md">>)}
LegacyOutline == ".discuss/2026-01-28/topic/outline.md"
LegacyDecisionTimes == {1}
LegacyEdits == {DictStdin([file_path |-> p]) : p \in LegacyPaths}
LegacyInputs ==
    MultiInputs \cup {DictStdin([hook_event_name |-> "Stop", stop_hook_active |-> TRUE])}

\* meta.yaml as an earlier version's conversation-end hook left it
LegacyMeta ==
    [create_initial_meta EXCEPT
       !.current_run = 3,
       !.file_status = [t \in FileTypes |->
                          [last_modified_run |-> 2,
                           pending_update |-> t = "outline"]]]

NoSessions == [r \in SessionRefs |-> NoSession]

\* Two copies of the workspace that share the directories and the store.
\* metaFile and call.sessions are the legacy records of the first,
\* call.twin and call.twinSessions those of the second; the twin fields
\* that follow hold what the last run gave in the second.
InitLegacy ==
    /\ ComparatorAtRest
    /\ discussRoot = TRUE
    /\ fs = [k \in Keys |->
               [NoDir(HookDecisionNames, HookNoteNames)
                   EXCEPT !.exists = TRUE, !.recent = TRUE, !.outline = 1]]
    /\ storeFile \in {YamlFile([config |-> [stale_threshold |-> t]]) :
                         t \in Thresholds}
    /\ stop = IdleStop
    /\ scenario = NoScenario
    /\ metaFile = YamlFile(create_initial_meta)
    /\ edit = IdleEdit
    /\ procs = <<>>
    /\ call = [op |-> "legacy",
               sessions |-> NoSessions,
               twin |-> YamlFile(LegacyMeta),
               twinSessions |-> NoSessions,
               twinStdout |-> <<>>,
               twinExit |-> 0,
               twinStore |-> AbsentFile]

\* the edit-time hook runs in both copies at the same moment, for an edit
\* of one file in the first and of another in the second; meta.yaml is
\* written in the discussion directory
LegacyEdit(stdin, twinStdin) ==
    /\ edit.pc = "idle"
    /\ stop.pc = "idle"
    /\ call.op = "legacy"
    /\ LET a == track_file_edit_main(stdin, metaFile, "none", "none")
           b == track_file_edit_main(twinStdin, call.twin, "none", "none")
       IN  /\ a.saved
           /\ b.saved
           /\ EditExited(stdin, a)
           /\ call' = [call EXCEPT !.twin = b.meta]
    /\ fs' = [fs EXCEPT ![DiscussDir].recent = TRUE]
    /\ UNCHANGED <<discussRoot, storeFile, stop, scenario, cmpVars, procs>>

\* a conversation in one of the copies marks its session
LegacyMark(inTwin, outline_path) ==
    /\ call.op = "legacy"
    /\ stop.pc = "idle"
    /\ IF inTwin
       THEN /\ call.twinSessions = NoSessions
            /\ call' = [call EXCEPT
                          !.twinSessions =
                              mark_outline_updated(@, LegacyRef, outline_path,
                                                   0, FALSE).files]
       ELSE /\ call.sessions = NoSessions
            /\ call' = [call EXCEPT
                          !.sessions =
                              mark_outline_updated(@, LegacyRef, outline_path,
                                                   0, FALSE).files]
    /\ UNCHANGED <<cmpVars, hookVars, editVars, procs>>

\* the two processes have ended, with a in the first copy and b in the second
LegacyExited(stdin, a, b) ==
    /\ Exited(stdin, [a.result EXCEPT !.store = a.files.store])
    /\ metaFile' = a.files.meta
    /\ call' = [call EXCEPT
                  !.sessions = a.files.sessions,
                  !.twin = b.files.meta,
                  !.twinSessions = b.files.sessions,
                  !.twinStdout = b.result.stdout,
                  !.twinExit = b.result.exit,
                  !.twinStore = b.files.store]

\* the conversation ends in both copies: the same input, the same
\* directory listing
LegacyStopHook(stdin) ==
    /\ stop.pc = "idle"
    /\ call.op = "legacy"
    /\ \A c \in StoredCounts(storeFile) : c < HookMaxCount
    /\ \E order \in Orders(find_active_discussions(discussRoot, fs)),
          scan \in ScanChoices(find_active_discussions(discussRoot, fs)) :
          LegacyExited(stdin,
              check_precipitation(stdin, order, scan,
                  [root |-> discussRoot, dirs |-> fs, store |-> storeFile,
                   meta |-> metaFile, sessions |-> call.sessions]),
              check_precipitation(stdin, order, scan,
                  [root |-> discussRoot, dirs |-> fs, store |-> storeFile,
                   meta |-> call.twin, sessions |-> call.twinSessions]))
    /\ UNCHANGED <<discussRoot, fs, scenario, edit, cmpVars, procs>>

NextLegacy ==
    \/ \E k \in Keys, t \in 1..MaxTime : WriteOutline(k, t) /\ UNCHANGED scenario
    \/ \E k \in Keys, n \in HookDecisionNames, t \in LegacyDecisionTimes :
           WriteDecision(k, n, t) /\ UNCHANGED scenario
    \/ \E k \in Keys : Age(k) /\ UNCHANGED scenario
    \/ \E stdin \in LegacyEdits, twinStdin \in LegacyEdits :
           LegacyEdit(stdin, twinStdin)
    \/ EditCollects
    \/ \E inTwin \in BOOLEAN : LegacyMark(inTwin, LegacyOutline)
    \/ \E stdin \in LegacyInputs : LegacyStopHook(stdin)
    \/ HostCollects /\ UNCHANGED scenario

SpecLegacy == InitLegacy /\ [][NextLegacy]_vars

====
